---- MODULE Spec2Model ----
(***************************************************************************)
(* Memorix: the reward ledger (contracts/MemorixGame.sol) and the round    *)
(* engine of the backend (server.js), as state machines.                   *)
(*                                                                         *)
(* Amounts of ether are written in units of 10^11 wei (1 ether = 10^7      *)
(* units), so that the contract's initial parameters fit TLC's integers.   *)
(***************************************************************************)
EXTENDS Integers, Sequences, FiniteSets, TLC

(***************************************************************************)
(* Identities                                                              *)
(***************************************************************************)
Owner == "owner"
Players == {"p1", "p2"}
AddressZero == "0x0"
Callers == {Owner} \cup Players
\* the keys of pendingRewards the model follows
Accounts == Callers \cup {AddressZero}

(***************************************************************************)
(* Bounds of the model                                                     *)
(***************************************************************************)
\* successful record and payout transactions
MaxRecords == 2
\* nesting of withdrawReward calls
MaxDepth == 2
\* ether the owner holds at the start
OwnerFunds == 60000

(***************************************************************************)
(* Revert reasons of the contract, by the name the design gives them       *)
(***************************************************************************)
Ok == "ok"
NotAuthorized == "Not authorized"
InvalidSteps == "Invalid steps"
InvalidCorrectSteps == "Invalid correct steps"
InvalidGridSize == "Invalid grid size"
InvalidInput == {InvalidSteps, InvalidCorrectSteps, InvalidGridSize}
NotInitialized == "Challenge not initialized"
AlreadyCompleted == "Already completed today"
NotVerified == "Not verified"
NotPerfect == "Must complete perfectly within time"
\* the two reasons with which a run that is not verified, perfect and in
\* time is refused (the design's NotVerified)
NotVerifiedOrPerfect == {NotVerified, NotPerfect}
ArityPlayers == "Must provide 10 players"
ArityMismatch == "Arrays length mismatch"
\* the two reasons with which arrays that are not of length 10 are refused
ArityErrors == {ArityPlayers, ArityMismatch}
NoRewards == "No rewards"
InsufficientFunds == "Insufficient contract balance"
\* Solidity 0.8 checked arithmetic: overflow (0x11) and division by zero (0x12)
PanicOverflow == "Panic(0x11)"
PanicDivZero == "Panic(0x12)"
\* address.transfer reverts when the recipient's code reverts or runs out of gas
TransferFailed == "transfer failed"

Uint8Max == 255

(***************************************************************************)
(* State of MemorixGame                                                    *)
(***************************************************************************)
VARIABLES
    nextRoundId,
    rounds,
    playerRounds,
    pendingRewards,
    playerStats,
    dailyChallenges,
    currentDailyChallengeDate,
    leaderboard,
    lastLeaderboardUpdate,
    baseRewardPerStep,
    timeBonusMultiplier,
    dailyChallengeRewardPerCompletion,
    leaderboardRewardPool,
    balance,        \* address(this).balance
    wallet,         \* the ether each identity holds outside the contract
    blockTime,      \* block.timestamp
    stack,          \* withdrawReward calls whose transfer is in progress
    last,           \* the last call made to the contract and how it ended
    credited,       \* history: total ever added to pendingRewards[p]
    paid,           \* history: total ever transferred to p by withdrawReward
    payouts,        \* history: leaderboard rewards credited to p
    payoutRuns,     \* history: number of successful updateLeaderboard calls
    configured      \* history: dates setDailyChallenge was called for

contractVars ==
    <<nextRoundId, rounds, playerRounds, pendingRewards, playerStats,
      dailyChallenges, currentDailyChallengeDate, leaderboard,
      lastLeaderboardUpdate, baseRewardPerStep, timeBonusMultiplier,
      dailyChallengeRewardPerCompletion, leaderboardRewardPool, balance>>

historyVars == <<credited, paid, payouts, payoutRuns, configured>>

ledgerVars == <<contractVars, wallet, blockTime, stack, last, historyVars>>

(***************************************************************************)
(* State of the backend (server.js 55-58) and of its requests in flight    *)
(***************************************************************************)
VARIABLES
    activeRounds,       \* roundId -> round
    leaderboardScores,  \* playerAddress -> [score, level]
    playerLevels,       \* playerAddress -> level
    contractWithSigner, \* whether the signing contract handle was created
    nextToken,          \* the roundIds handed out so far
    handlers,           \* the requests being served, each at an await
    response,           \* the last response sent, with the request's roundId and playerAddress
    ledgerCalls,        \* history: roundId -> record calls made to the ledger
    settlements,        \* history: roundId -> times its score was accumulated
    payoutLog           \* history: the last run of processLeaderboardPayout

serverVars ==
    <<activeRounds, leaderboardScores, playerLevels, contractWithSigner,
      nextToken, handlers, response, ledgerCalls, settlements, payoutLog>>

vars == <<ledgerVars, serverVars>>

(***************************************************************************)
(* Types of the contract (MemorixGame.sol 7-55)                            *)
(***************************************************************************)
INFINITE == "INFINITE"
DAILY_CHALLENGE == "DAILY_CHALLENGE"
NONE == "NONE"
WRONG_SEQUENCE == "WRONG_SEQUENCE"
TIME_EXPIRED == "TIME_EXPIRED"

\* The value of a PlayerStats slot that was never written
ZeroStats ==
    [totalRounds |-> 0, totalScore |-> 0, totalRewards |-> 0, bestScore |-> 0,
     currentStreak |-> 0, currentLevel |-> 0, lastDailyChallengeDate |-> 0,
     timeoutsCount |-> 0, perfectRoundsCount |-> 0]

\* The value of a DailyChallenge slot that was never written
ZeroChallenge ==
    [date |-> 0, gridSize |-> 0, steps |-> 0, rewardPool |-> 0,
     showDuration |-> 0, intervalBetween |-> 0, timeLimitMs |-> 0,
     hasCompleted |-> {}, completers |-> <<>>]

ZeroEntry == [player |-> AddressZero, score |-> 0, level |-> 0]

Dates == {0, 20251101}

Call(op, caller, res) == [op |-> op, caller |-> caller, res |-> res]

(***************************************************************************)
(* Arithmetic helpers                                                      *)
(***************************************************************************)
RECURSIVE GCD(_, _)
GCD(a, b) == IF b = 0 THEN a ELSE GCD(b, a % b)

\* floor(a * b / c) for c > 0, cancelling common factors first so that the
\* intermediate product stays within TLC's integers (the contract computes the
\* same quotient in uint256)
MulDiv(a, b, c) ==
    LET g1 == GCD(a, c)
        a1 == a \div g1
        c1 == c \div g1
        g2 == GCD(b, c1)
        b1 == b \div g2
        c2 == c1 \div g2
    IN  (a1 * b1) \div c2

(***************************************************************************)
(* Initial state: the contract as constructed (MemorixGame.sol 57-91)      *)
(***************************************************************************)
InitialFunds == [a \in Callers |-> IF a = Owner THEN OwnerFunds ELSE 0]

LedgerInit ==
    /\ nextRoundId = 1
    /\ rounds = <<>>
    /\ playerRounds = [p \in Players |-> <<>>]
    /\ pendingRewards = [a \in Accounts |-> 0]
    /\ playerStats = [p \in Players |-> ZeroStats]
    /\ dailyChallenges = [d \in Dates |-> ZeroChallenge]
    /\ currentDailyChallengeDate = 0
    /\ leaderboard = [i \in 0..9 |-> ZeroEntry]
    /\ lastLeaderboardUpdate = 0
    /\ baseRewardPerStep = 10000
    /\ timeBonusMultiplier = 100
    /\ dailyChallengeRewardPerCompletion = 100000
    /\ leaderboardRewardPool = 10000000
    /\ balance = 0
    /\ wallet = InitialFunds
    /\ blockTime = 1
    /\ stack = <<>>
    /\ last = Call("constructor", Owner, Ok)
    /\ credited = [a \in Accounts |-> 0]
    /\ paid = [a \in Callers |-> 0]
    /\ payouts = [a \in Accounts |-> 0]
    /\ payoutRuns = 0
    /\ configured = {}

\* The rounds that a long career has left on the ledger before the run
\* starts: 0, or the 252 rounds after which the uint8 level is 253
CareerBase == Uint8Max - 3

\* The rounds recorded in the run: those beyond the career it started from
RecordedInRun ==
    IF nextRoundId - 1 >= CareerBase THEN nextRoundId - 1 - CareerBase
    ELSE nextRoundId - 1

\* The model stops recording once MaxRecords transactions have been recorded
RoomToRecord == RecordedInRun + payoutRuns < MaxRecords

\* A call that reverts: nothing changes but the caller learns the reason
Reverts(op, caller, reason) ==
    /\ last' = Call(op, caller, reason)
    /\ UNCHANGED <<contractVars, wallet, blockTime, stack, historyVars, serverVars>>

(***************************************************************************)
(* calculateReward (MemorixGame.sol 282-301)                               *)
(***************************************************************************)
\* The division at line 293 is by timeLimitMs * 1000
calculateRewardPanics(steps, correctSteps, timeElapsedMs, timeLimitMs) ==
    correctSteps # 0 /\ timeLimitMs * 1000 = 0

\* calculateReward without the perfect-round bonus of lines 296-298
calculateRewardNoLine297(steps, correctSteps, timeElapsedMs, timeLimitMs) ==
    IF correctSteps = 0 THEN 0
    ELSE
        LET reward0 == correctSteps * baseRewardPerStep
            timeLeftMs == IF timeLimitMs > timeElapsedMs
                          THEN timeLimitMs - timeElapsedMs ELSE 0
        IN  reward0 + MulDiv(reward0 * timeBonusMultiplier, timeLeftMs,
                             timeLimitMs * 1000)

calculateReward(steps, correctSteps, timeElapsedMs, timeLimitMs) ==
    IF correctSteps = 0 THEN 0
    ELSE
        LET reward0 == correctSteps * baseRewardPerStep
            timeLeftMs == IF timeLimitMs > timeElapsedMs
                          THEN timeLimitMs - timeElapsedMs ELSE 0
            timeBonus == MulDiv(reward0 * timeBonusMultiplier, timeLeftMs,
                                timeLimitMs * 1000)
            reward1 == reward0 + timeBonus
        IN  IF correctSteps = steps THEN reward1 + (reward1 \div 2) ELSE reward1

(***************************************************************************)
(* recordInfiniteRound (MemorixGame.sol 120-193)                           *)
(***************************************************************************)
\* a record that leaves nextRoundId as it was
RoundIdKept(id) == id

\* lines 192 and 245: nextRoundId++
RoundIdAfter(id) == id + 1

\* line 136: a level slot that was never written reads as level 1
EffectiveLevel(stored) == IF stored = 0 THEN 1 ELSE stored

\* line 172: the condition under which the round levels the player up
Qualifies(verified, correctSteps, steps, timeExpired) ==
    verified /\ correctSteps = steps /\ ~timeExpired

\* lines 146-149: the reward stored in the Round record
RoundReward(steps, correctSteps, timeElapsedMs, timeLimitMs, timeExpired, verified) ==
    IF ~timeExpired /\ correctSteps = steps
    THEN calculateReward(steps, correctSteps, timeElapsedMs, timeLimitMs)
    ELSE 0

\* lines 138-144
FailureReasonOf(steps, correctSteps, timeExpired) ==
    IF timeExpired THEN TIME_EXPIRED
    ELSE IF correctSteps < steps THEN WRONG_SEQUENCE
    ELSE NONE

\* recordInfiniteRound without the require of line 133
recordInfiniteRoundResultNoLine133(caller, player, score, gridSize, steps, correctSteps, timeElapsedMs, timeLimitMs, timeExpired, verified) ==
    IF caller # Owner THEN NotAuthorized
    ELSE IF ~(steps > 0 /\ steps <= 50) THEN InvalidSteps
    ELSE IF ~(correctSteps <= steps) THEN InvalidCorrectSteps
    ELSE IF /\ ~timeExpired /\ correctSteps = steps
            /\ calculateRewardPanics(steps, correctSteps, timeElapsedMs, timeLimitMs)
         THEN PanicDivZero
    ELSE IF /\ Qualifies(verified, correctSteps, steps, timeExpired)
            /\ EffectiveLevel(playerStats[player].currentLevel) + 1 > Uint8Max
         THEN PanicOverflow
    ELSE Ok

\* How a call ends: the modifier, the three requires, then the checked
\* arithmetic of lines 148 (division) and 175 (uint8 addition)
recordInfiniteRoundResult(caller, player, score, gridSize, steps, correctSteps, timeElapsedMs, timeLimitMs, timeExpired, verified) ==
    IF caller # Owner THEN NotAuthorized
    ELSE IF ~(steps > 0 /\ steps <= 50) THEN InvalidSteps
    ELSE IF ~(correctSteps <= steps) THEN InvalidCorrectSteps
    ELSE IF ~(gridSize >= 2 /\ gridSize <= 10) THEN InvalidGridSize
    ELSE IF /\ ~timeExpired /\ correctSteps = steps
            /\ calculateRewardPanics(steps, correctSteps, timeElapsedMs, timeLimitMs)
         THEN PanicDivZero
    ELSE IF /\ Qualifies(verified, correctSteps, steps, timeExpired)
            /\ EffectiveLevel(playerStats[player].currentLevel) + 1 > Uint8Max
         THEN PanicOverflow
    ELSE Ok

\* recordInfiniteRound without line 185: the streak survives a failed round
StatsAfterInfiniteKeepingStreak(stats, score, steps, correctSteps, timeExpired, verified, reward) ==
    LET currentLevel == EffectiveLevel(stats.currentLevel)
        s1 == [stats EXCEPT
                 !.timeoutsCount = IF timeExpired THEN @ + 1 ELSE @,
                 !.totalRounds = @ + 1,
                 !.totalScore = @ + score]
    IN  IF Qualifies(verified, correctSteps, steps, timeExpired)
        THEN [s1 EXCEPT
                 !.totalRewards = @ + reward,
                 !.currentLevel = currentLevel + 1,
                 !.currentStreak = @ + 1,
                 !.perfectRoundsCount = @ + 1,
                 !.bestScore = IF score > @ THEN score ELSE @]
        ELSE s1

\* lines 135-141, 169-189: the player's stats after a successful call
StatsAfterInfinite(stats, score, steps, correctSteps, timeExpired, verified, reward) ==
    LET currentLevel == EffectiveLevel(stats.currentLevel)
        s1 == [stats EXCEPT
                 !.timeoutsCount = IF timeExpired THEN @ + 1 ELSE @,
                 !.totalRounds = @ + 1,
                 !.totalScore = @ + score]
    IN  IF Qualifies(verified, correctSteps, steps, timeExpired)
        THEN [s1 EXCEPT
                 !.totalRewards = @ + reward,
                 !.currentLevel = currentLevel + 1,
                 !.currentStreak = @ + 1,
                 !.perfectRoundsCount = @ + 1,
                 !.bestScore = IF score > @ THEN score ELSE @]
        ELSE [s1 EXCEPT !.currentStreak = 0]

recordInfiniteRound(caller, player, score, gridSize, steps, correctSteps, timeElapsedMs, timeLimitMs, timeExpired, verified) ==
    LET res == recordInfiniteRoundResult(caller, player, score, gridSize, steps,
                   correctSteps, timeElapsedMs, timeLimitMs, timeExpired, verified)
        stats == playerStats[player]
        reward == RoundReward(steps, correctSteps, timeElapsedMs, timeLimitMs,
                              timeExpired, verified)
        credit == IF Qualifies(verified, correctSteps, steps, timeExpired)
                  THEN reward ELSE 0
        round == [id |-> nextRoundId, player |-> player, roundType |-> INFINITE,
                  level |-> EffectiveLevel(stats.currentLevel),
                  gridSize |-> gridSize, steps |-> steps, score |-> score,
                  timeElapsedMs |-> timeElapsedMs, timeLimitMs |-> timeLimitMs,
                  correctSteps |-> correctSteps, reward |-> reward,
                  timestamp |-> blockTime, verified |-> verified,
                  failureReason |-> FailureReasonOf(steps, correctSteps, timeExpired)]
    IN  /\ stack = <<>>
        /\ IF res # Ok THEN Reverts("recordInfiniteRound", caller, res)
           ELSE /\ RoomToRecord
                /\ rounds' = Append(rounds, round)
                /\ playerRounds' = [playerRounds EXCEPT ![player] = Append(@, nextRoundId)]
                /\ playerStats' = [playerStats EXCEPT ![player] =
                       StatsAfterInfinite(stats, score, steps, correctSteps,
                                          timeExpired, verified, reward)]
                /\ pendingRewards' = [pendingRewards EXCEPT ![player] = @ + credit]
                /\ credited' = [credited EXCEPT ![player] = @ + credit]
                /\ nextRoundId' = RoundIdAfter(nextRoundId)
                /\ last' = Call("recordInfiniteRound", caller, Ok)
                /\ UNCHANGED <<dailyChallenges, currentDailyChallengeDate, leaderboard,
                               lastLeaderboardUpdate, baseRewardPerStep,
                               timeBonusMultiplier, dailyChallengeRewardPerCompletion,
                               leaderboardRewardPool, balance, wallet, blockTime,
                               stack, paid, payouts, payoutRuns, configured,
                   serverVars>>

(***************************************************************************)
(* setDailyChallenge, fundDailyChallenge (MemorixGame.sol 98-118)          *)
(***************************************************************************)
setDailyChallenge(caller, date, gridSize, steps, showDuration, intervalBetween, timeLimitMs) ==
    /\ stack = <<>>
    /\ IF caller # Owner THEN Reverts("setDailyChallenge", caller, NotAuthorized)
       ELSE /\ dailyChallenges' = [dailyChallenges EXCEPT ![date] =
                   [@ EXCEPT !.date = date, !.gridSize = gridSize, !.steps = steps,
                             !.showDuration = showDuration,
                             !.intervalBetween = intervalBetween,
                             !.timeLimitMs = timeLimitMs]]
            /\ currentDailyChallengeDate' = date
            /\ configured' = configured \cup {date}
            /\ last' = Call("setDailyChallenge", caller, Ok)
            /\ UNCHANGED <<nextRoundId, rounds, playerRounds, pendingRewards,
                           playerStats, leaderboard, lastLeaderboardUpdate,
                           baseRewardPerStep, timeBonusMultiplier,
                           dailyChallengeRewardPerCompletion, leaderboardRewardPool,
                           balance, wallet, blockTime, stack, credited, paid,
                           payouts, payoutRuns,
                   serverVars>>

\* payable: msg.value moves from the caller to the contract unless the call reverts
fundDailyChallenge(caller, date, value) ==
    /\ stack = <<>>
    /\ wallet[caller] >= value
    /\ IF caller # Owner THEN Reverts("fundDailyChallenge", caller, NotAuthorized)
       ELSE /\ dailyChallenges' = [dailyChallenges EXCEPT ![date].rewardPool = @ + value]
            /\ balance' = balance + value
            /\ wallet' = [wallet EXCEPT ![caller] = @ - value]
            /\ last' = Call("fundDailyChallenge", caller, Ok)
            /\ UNCHANGED <<nextRoundId, rounds, playerRounds, pendingRewards,
                           playerStats, currentDailyChallengeDate, leaderboard,
                           lastLeaderboardUpdate, baseRewardPerStep,
                           timeBonusMultiplier, dailyChallengeRewardPerCompletion,
                           leaderboardRewardPool, blockTime, stack, historyVars,
                   serverVars>>

(***************************************************************************)
(* recordDailyChallenge (MemorixGame.sol 195-246)                          *)
(***************************************************************************)
\* recordDailyChallenge without the require of line 210
recordDailyChallengeResultNoLine210(caller, player, date, score, correctSteps, totalSteps, timeElapsedMs, timeLimitMs, timeExpired, verified) ==
    IF caller # Owner THEN NotAuthorized
    ELSE IF ~(dailyChallenges[date].date = date) THEN NotInitialized
    ELSE IF player \in dailyChallenges[date].hasCompleted THEN AlreadyCompleted
    ELSE IF ~verified THEN NotVerified
    ELSE Ok

\* recordDailyChallenge without the require of line 208
recordDailyChallengeResultNoLine208(caller, player, date, score, correctSteps, totalSteps, timeElapsedMs, timeLimitMs, timeExpired, verified) ==
    IF caller # Owner THEN NotAuthorized
    ELSE IF ~(dailyChallenges[date].date = date) THEN NotInitialized
    ELSE IF ~verified THEN NotVerified
    ELSE IF ~(correctSteps = totalSteps /\ ~timeExpired) THEN NotPerfect
    ELSE Ok

recordDailyChallengeResult(caller, player, date, score, correctSteps, totalSteps, timeElapsedMs, timeLimitMs, timeExpired, verified) ==
    IF caller # Owner THEN NotAuthorized
    ELSE IF ~(dailyChallenges[date].date = date) THEN NotInitialized
    ELSE IF player \in dailyChallenges[date].hasCompleted THEN AlreadyCompleted
    ELSE IF ~verified THEN NotVerified
    ELSE IF ~(correctSteps = totalSteps /\ ~timeExpired) THEN NotPerfect
    ELSE Ok

recordDailyChallenge(caller, player, date, score, correctSteps, totalSteps, timeElapsedMs, timeLimitMs, timeExpired, verified) ==
    LET res == recordDailyChallengeResult(caller, player, date, score, correctSteps,
                   totalSteps, timeElapsedMs, timeLimitMs, timeExpired, verified)
        challenge == dailyChallenges[date]
        reward == dailyChallengeRewardPerCompletion
        round == [id |-> nextRoundId, player |-> player,
                  roundType |-> DAILY_CHALLENGE, level |-> 0,
                  gridSize |-> challenge.gridSize, steps |-> challenge.steps,
                  score |-> score, timeElapsedMs |-> timeElapsedMs,
                  timeLimitMs |-> timeLimitMs, correctSteps |-> correctSteps,
                  reward |-> reward, timestamp |-> blockTime,
                  verified |-> verified, failureReason |-> NONE]
    IN  /\ stack = <<>>
        /\ IF res # Ok THEN Reverts("recordDailyChallenge", caller, res)
           ELSE /\ RoomToRecord
                /\ dailyChallenges' = [dailyChallenges EXCEPT ![date] =
                       [@ EXCEPT !.hasCompleted = @ \cup {player},
                                 !.completers = Append(@, player)]]
                /\ pendingRewards' = [pendingRewards EXCEPT ![player] = @ + reward]
                /\ credited' = [credited EXCEPT ![player] = @ + reward]
                /\ playerStats' = [playerStats EXCEPT ![player] =
                       [@ EXCEPT !.totalScore = @ + score,
                                 !.totalRewards = @ + reward,
                                 !.lastDailyChallengeDate = date,
                                 !.perfectRoundsCount = @ + 1]]
                /\ rounds' = Append(rounds, round)
                /\ playerRounds' = [playerRounds EXCEPT ![player] = Append(@, nextRoundId)]
                /\ nextRoundId' = RoundIdAfter(nextRoundId)
                /\ last' = Call("recordDailyChallenge", caller, Ok)
                /\ UNCHANGED <<currentDailyChallengeDate, leaderboard,
                               lastLeaderboardUpdate, baseRewardPerStep,
                               timeBonusMultiplier, dailyChallengeRewardPerCompletion,
                               leaderboardRewardPool, balance, wallet, blockTime,
                               stack, paid, payouts, payoutRuns, configured,
                   serverVars>>

(***************************************************************************)
(* updateLeaderboard (MemorixGame.sol 248-280)                             *)
(***************************************************************************)
\* lines 252-263: the reward of rank i (0-based) for the current pool
RankWeight == <<30, 20, 15, 10, 8, 6, 4, 3, 2, 2>>

\* the reward of rank i with the division done before the multiplication
RankRewardDividingFirst(i) == (leaderboardRewardPool \div 100) * RankWeight[i + 1]

RankReward(i) == (leaderboardRewardPool * RankWeight[i + 1]) \div 100

\* the loop without the test of line 272
RECURSIVE LoopCreditNoLine272(_, _, _)
LoopCreditNoLine272(topPlayers, a, i) ==
    IF i = 10 THEN 0
    ELSE (IF topPlayers[i + 1] = a THEN RankReward(i) ELSE 0)
         + LoopCreditNoLine272(topPlayers, a, i + 1)

\* lines 265-276: what the loop adds for player a over the ten ranks
RECURSIVE LoopCredit(_, _, _)
LoopCredit(topPlayers, a, i) ==
    IF i = 10 THEN 0
    ELSE (IF topPlayers[i + 1] # AddressZero /\ topPlayers[i + 1] = a
          THEN RankReward(i) ELSE 0) + LoopCredit(topPlayers, a, i + 1)

\* updateLeaderboard without the require of line 250
updateLeaderboardResultNoLine250(caller, topPlayers, scores, levels) ==
    IF caller # Owner THEN NotAuthorized
    ELSE IF ~(Len(topPlayers) = 10) THEN ArityPlayers
    ELSE Ok

updateLeaderboardResult(caller, topPlayers, scores, levels) ==
    IF caller # Owner THEN NotAuthorized
    ELSE IF ~(Len(topPlayers) = 10) THEN ArityPlayers
    ELSE IF ~(Len(scores) = 10 /\ Len(levels) = 10) THEN ArityMismatch
    ELSE Ok

updateLeaderboard(caller, topPlayers, scores, levels) ==
    LET res == updateLeaderboardResult(caller, topPlayers, scores, levels) IN
    /\ stack = <<>>
    /\ IF res # Ok THEN Reverts("updateLeaderboard", caller, res)
       ELSE /\ RoomToRecord
            /\ leaderboard' = [i \in 0..9 |->
                   [player |-> topPlayers[i + 1], score |-> scores[i + 1],
                    level |-> levels[i + 1]]]
            /\ pendingRewards' = [a \in Accounts |->
                   pendingRewards[a] + LoopCredit(topPlayers, a, 0)]
            /\ playerStats' = [p \in Players |->
                   [playerStats[p] EXCEPT !.totalRewards =
                        @ + LoopCredit(topPlayers, p, 0)]]
            /\ credited' = [a \in Accounts |-> credited[a] + LoopCredit(topPlayers, a, 0)]
            /\ payouts' = [a \in Accounts |-> payouts[a] + LoopCredit(topPlayers, a, 0)]
            /\ payoutRuns' = payoutRuns + 1
            /\ lastLeaderboardUpdate' = blockTime
            /\ last' = Call("updateLeaderboard", caller, Ok)
            /\ UNCHANGED <<nextRoundId, rounds, playerRounds, dailyChallenges,
                           currentDailyChallengeDate, baseRewardPerStep,
                           timeBonusMultiplier, dailyChallengeRewardPerCompletion,
                           leaderboardRewardPool, balance, wallet, blockTime, stack,
                           paid, configured,
                   serverVars>>

(***************************************************************************)
(* withdrawReward (MemorixGame.sol 303-312)                                *)
(*                                                                         *)
(* The transfer at line 309 hands control to the recipient, whose code may *)
(* call withdrawReward again before it returns, and may revert.  A call is *)
(* therefore a frame on `stack` from the transfer until the recipient      *)
(* returns; a revert restores the state saved when the frame was entered.  *)
(***************************************************************************)
\* withdrawReward without the require of line 305
withdrawRewardResultNoLine305(caller) ==
    IF ~(balance >= pendingRewards[caller]) THEN InsufficientFunds
    ELSE Ok

\* withdrawReward without the require of line 306
withdrawRewardResultNoLine306(caller) ==
    IF ~(pendingRewards[caller] > 0) THEN NoRewards
    ELSE Ok

withdrawRewardResult(caller) ==
    IF ~(pendingRewards[caller] > 0) THEN NoRewards
    ELSE IF ~(balance >= pendingRewards[caller]) THEN InsufficientFunds
    ELSE Ok

\* withdrawReward with line 308 moved after the transfer
PendingLeftAtTransfer(caller) == pendingRewards

\* line 308: pendingRewards as the transfer of line 309 finds it
PendingAtTransfer(caller) == [pendingRewards EXCEPT ![caller] = 0]

\* who may call now: anyone between transactions; during a transfer only the
\* recipient of the innermost transfer
MayCall(caller) ==
    \/ stack = <<>>
    \/ /\ stack # <<>>
       /\ Len(stack) < MaxDepth
       /\ stack[Len(stack)].player = caller

withdrawReward(caller) ==
    LET res == withdrawRewardResult(caller)
        amount == pendingRewards[caller]
    IN  /\ MayCall(caller)
        /\ IF res # Ok THEN Reverts("withdrawReward", caller, res)
           ELSE /\ pendingRewards' = PendingAtTransfer(caller)
                /\ balance' = balance - amount
                /\ wallet' = [wallet EXCEPT ![caller] = @ + amount]
                /\ paid' = [paid EXCEPT ![caller] = @ + amount]
                /\ stack' = Append(stack,
                       [player |-> caller, amount |-> amount,
                        saved |-> [pendingRewards |-> pendingRewards,
                                   balance |-> balance, wallet |-> wallet,
                                   paid |-> paid]])
                /\ last' = Call("withdrawReward", caller, "transfer")
                /\ UNCHANGED <<nextRoundId, rounds, playerRounds, playerStats,
                               dailyChallenges, currentDailyChallengeDate,
                               leaderboard, lastLeaderboardUpdate, baseRewardPerStep,
                               timeBonusMultiplier, dailyChallengeRewardPerCompletion,
                               leaderboardRewardPool, blockTime, credited, payouts,
                               payoutRuns, configured,
                   serverVars>>

\* the recipient returns: line 311 emits RewardWithdrawn and the call ends
transferReturns ==
    /\ stack # <<>>
    /\ LET frame == stack[Len(stack)] IN
       /\ stack' = SubSeq(stack, 1, Len(stack) - 1)
       /\ last' = Call("withdrawReward", frame.player, Ok)
    /\ UNCHANGED <<contractVars, wallet, blockTime, historyVars,
                   serverVars>>

\* the recipient reverts: transfer() reverts and the whole call is undone
transferReverts ==
    /\ stack # <<>>
    /\ LET frame == stack[Len(stack)] IN
       /\ stack' = SubSeq(stack, 1, Len(stack) - 1)
       /\ pendingRewards' = frame.saved.pendingRewards
       /\ balance' = frame.saved.balance
       /\ wallet' = frame.saved.wallet
       /\ paid' = frame.saved.paid
       /\ last' = Call("withdrawReward", frame.player, TransferFailed)
    /\ UNCHANGED <<nextRoundId, rounds, playerRounds, playerStats,
                   dailyChallenges, currentDailyChallengeDate, leaderboard,
                   lastLeaderboardUpdate, baseRewardPerStep, timeBonusMultiplier,
                   dailyChallengeRewardPerCompletion, leaderboardRewardPool,
                   blockTime, credited, payouts, payoutRuns, configured,
                   serverVars>>

(***************************************************************************)
(* Administration and funding (MemorixGame.sol 334-352)                    *)
(***************************************************************************)
updateBaseReward(caller, newReward) ==
    /\ stack = <<>>
    /\ IF caller # Owner THEN Reverts("updateBaseReward", caller, NotAuthorized)
       ELSE /\ baseRewardPerStep' = newReward
            /\ last' = Call("updateBaseReward", caller, Ok)
            /\ UNCHANGED <<nextRoundId, rounds, playerRounds, pendingRewards,
                           playerStats, dailyChallenges, currentDailyChallengeDate,
                           leaderboard, lastLeaderboardUpdate, timeBonusMultiplier,
                           dailyChallengeRewardPerCompletion, leaderboardRewardPool,
                           balance, wallet, blockTime, stack, historyVars,
                   serverVars>>

updateDailyChallengeReward(caller, newReward) ==
    /\ stack = <<>>
    /\ IF caller # Owner
       THEN Reverts("updateDailyChallengeReward", caller, NotAuthorized)
       ELSE /\ dailyChallengeRewardPerCompletion' = newReward
            /\ last' = Call("updateDailyChallengeReward", caller, Ok)
            /\ UNCHANGED <<nextRoundId, rounds, playerRounds, pendingRewards,
                           playerStats, dailyChallenges, currentDailyChallengeDate,
                           leaderboard, lastLeaderboardUpdate, baseRewardPerStep,
                           timeBonusMultiplier, leaderboardRewardPool,
                           balance, wallet, blockTime, stack, historyVars,
                   serverVars>>

updateLeaderboardPool(caller, newPool) ==
    /\ stack = <<>>
    /\ IF caller # Owner THEN Reverts("updateLeaderboardPool", caller, NotAuthorized)
       ELSE /\ leaderboardRewardPool' = newPool
            /\ last' = Call("updateLeaderboardPool", caller, Ok)
            /\ UNCHANGED <<nextRoundId, rounds, playerRounds, pendingRewards,
                           playerStats, dailyChallenges, currentDailyChallengeDate,
                           leaderboard, lastLeaderboardUpdate, baseRewardPerStep,
                           timeBonusMultiplier, dailyChallengeRewardPerCompletion,
                           balance, wallet, blockTime, stack, historyVars,
                   serverVars>>

\* what a deposit changes: fundContract and receive have empty bodies
Deposit(op, caller, value) ==
    /\ balance' = balance + value
    /\ wallet' = [wallet EXCEPT ![caller] = @ - value]
    /\ last' = Call(op, caller, Ok)
    /\ UNCHANGED <<nextRoundId, rounds, playerRounds, pendingRewards,
                   playerStats, dailyChallenges, currentDailyChallengeDate,
                   leaderboard, lastLeaderboardUpdate, baseRewardPerStep,
                   timeBonusMultiplier, dailyChallengeRewardPerCompletion,
                   leaderboardRewardPool, blockTime, stack, historyVars,
                   serverVars>>

fundContract(caller, value) ==
    /\ stack = <<>>
    /\ wallet[caller] >= value
    /\ IF caller # Owner THEN Reverts("fundContract", caller, NotAuthorized)
       ELSE Deposit("fundContract", caller, value)

receive(caller, value) ==
    /\ stack = <<>>
    /\ wallet[caller] >= value
    /\ Deposit("receive", caller, value)

emergencyWithdraw(caller) ==
    /\ stack = <<>>
    /\ IF caller # Owner THEN Reverts("emergencyWithdraw", caller, NotAuthorized)
       ELSE /\ balance' = 0
            /\ wallet' = [wallet EXCEPT ![Owner] = @ + balance]
            /\ last' = Call("emergencyWithdraw", caller, Ok)
            /\ UNCHANGED <<nextRoundId, rounds, playerRounds, pendingRewards,
                           playerStats, dailyChallenges, currentDailyChallengeDate,
                           leaderboard, lastLeaderboardUpdate, baseRewardPerStep,
                           timeBonusMultiplier, dailyChallengeRewardPerCompletion,
                           leaderboardRewardPool, blockTime, stack, historyVars,
                   serverVars>>

(***************************************************************************)
(* The backend's configuration (game-config.json, read at server.js 13).   *)
(* Fractions are written <<numerator, denominator>>.                       *)
(***************************************************************************)
config ==
    [infiniteMode |->
        [baseDifficulty |-> [gridSize |-> 3, steps |-> 2, showDuration |-> 800,
                             intervalBetween |-> 400],
         difficultyScaling |->
            [maxGridSize |-> 6, gridSizeIncreaseEvery |-> 3,
             stepsIncreaseRate |-> <<1, 2>>,
             minTimeLimit |-> 5000, timeLimitDecreasePerLevel |-> 500,
             minShowDuration |-> 300, showDurationDecreasePerLevel |-> 50,
             minInterval |-> 150, intervalDecreasePerLevel |-> 25],
         baseTimeLimit |-> 10000,
         scoring |-> [basePointsPerStep |-> 10, timeBonusPerMs |-> <<1, 100>>,
                      perfectRoundMultiplier |-> <<3, 2>>,
                      levelMultiplier |-> <<11, 10>>]],
     dailyChallenge |->
        [maxTriesPerDay |-> 3,
         challenge |-> [gridSize |-> 4, steps |-> 2, showDuration |-> 400,
                        intervalBetween |-> 250, timeLimit |-> 10000]],
     antiCheat |-> [enabled |-> TRUE, minReactionTimeMs |-> 100],
     leaderboard |-> [topPlayersCount |-> 10]]

Min(a, b) == IF a < b THEN a ELSE b
Max(a, b) == IF a > b THEN a ELSE b

RECURSIVE Pow(_, _)
Pow(b, e) == IF e <= 0 THEN 1 ELSE b * Pow(b, e - 1)

\* Map helpers for the JavaScript Maps
EmptyMap == [k \in {} |-> 0]
MapSet(m, k, v) == [x \in DOMAIN m \cup {k} |-> IF x = k THEN v ELSE m[x]]
\* a delete that leaves the entry in place
MapKept(m, k) == m

MapDelete(m, k) == [x \in DOMAIN m \ {k} |-> m[x]]

(***************************************************************************)
(* Pure helpers of server.js (70-169)                                      *)
(***************************************************************************)
\* generateSequence: every element is drawn from 0 .. gridSize*gridSize - 1;
\* the model draws from the first two tiles
Tiles == {0, 1}
generateSequence(gridSize, steps) == [1..Max(steps, 0) -> Tiles]

calculateInfiniteDifficulty(level) ==
    LET base == config.infiniteMode.baseDifficulty
        scaling == config.infiniteMode.difficultyScaling
    IN  [gridSize |-> Min(scaling.maxGridSize,
                          base.gridSize + ((level - 1) \div scaling.gridSizeIncreaseEvery)),
         steps |-> base.steps + (((level - 1) * scaling.stepsIncreaseRate[1])
                                    \div scaling.stepsIncreaseRate[2]),
         timeLimit |-> Max(scaling.minTimeLimit,
                           config.infiniteMode.baseTimeLimit
                               - ((level - 1) * scaling.timeLimitDecreasePerLevel)),
         showDuration |-> Max(scaling.minShowDuration,
                              base.showDuration
                                  - ((level - 1) * scaling.showDurationDecreasePerLevel)),
         intervalBetween |-> Max(scaling.minInterval,
                                 base.intervalBetween
                                     - ((level - 1) * scaling.intervalDecreasePerLevel))]

calculateInfiniteScore(correctSteps, totalSteps, timeElapsedMs, timeLimitMs, level) ==
    LET scoring == config.infiniteMode.scoring
        basePoints == totalSteps * scoring.basePointsPerStep
        timeLeftMs == Max(0, timeLimitMs - timeElapsedMs)
        timeBonus == (timeLeftMs * scoring.timeBonusPerMs[1]) \div scoring.timeBonusPerMs[2]
        score0 == (IF totalSteps > 0 THEN (basePoints * correctSteps) \div totalSteps
                   ELSE 0) + timeBonus
        score1 == IF correctSteps = totalSteps /\ totalSteps > 0
                  THEN (score0 * scoring.perfectRoundMultiplier[1])
                           \div scoring.perfectRoundMultiplier[2]
                  ELSE score0
        e == Max(0, level - 1)
    IN  (score1 * Pow(scoring.levelMultiplier[1], e)) \div Pow(scoring.levelMultiplier[2], e)

calculateDailyScore(correctSteps, totalSteps, timeElapsedMs, timeLimitMs) ==
    LET basePoints == totalSteps * 20
        timeLeftMs == Max(0, timeLimitMs - timeElapsedMs)
        timeBonus == (timeLeftMs * 2) \div 10
        score0 == (IF totalSteps > 0 THEN (basePoints * correctSteps) \div totalSteps
                   ELSE 0) + timeBonus
    IN  IF correctSteps = totalSteps /\ totalSteps > 0
        THEN (score0 * 3) \div 2 ELSE score0

\* Telemetry is [sequenceStartTs, clicks: sequence of clientTs]; absent
\* telemetry takes the same branch as an empty list of clicks (line 152)
RECURSIVE SumSeq(_)
SumSeq(q) == IF q = <<>> THEN 0 ELSE Head(q) + SumSeq(Tail(q))

verifyRound(roundData, telemetry) ==
    IF ~config.antiCheat.enabled THEN TRUE
    ELSE IF Len(telemetry.clicks) = 0 THEN TRUE
    ELSE
        LET reactionTimes == [i \in 1..Len(telemetry.clicks) |->
                IF i = 1 THEN telemetry.clicks[1] - telemetry.sequenceStartTs
                ELSE telemetry.clicks[i] - telemetry.clicks[i - 1]]
        IN  ~(SumSeq(reactionTimes)
                < config.antiCheat.minReactionTimeMs * Len(reactionTimes))

\* the loop without the break of lines 390-392
RECURSIVE countCorrectNoLine391(_, _, _)
countCorrectNoLine391(clicked, sequence, i) ==
    IF i > Min(Len(clicked), Len(sequence)) THEN 0
    ELSE (IF clicked[i] = sequence[i] THEN 1 ELSE 0)
         + countCorrectNoLine391(clicked, sequence, i + 1)

\* lines 384-393 and 593-602: the matching prefix of clicks and sequence
RECURSIVE countCorrect(_, _, _)
countCorrect(clicked, sequence, i) ==
    IF i > Min(Len(clicked), Len(sequence)) THEN 0
    ELSE IF clicked[i] = sequence[i] THEN 1 + countCorrect(clicked, sequence, i + 1)
    ELSE 0

\* updateLeaderboardRankings (server.js 172-179), as the new Map
updateLeaderboardRankings(playerAddress, currentLevel, incrementalScore) ==
    LET existing == IF playerAddress \in DOMAIN leaderboardScores
                    THEN leaderboardScores[playerAddress]
                    ELSE [level |-> 1, score |-> 0]
        newLevel == Max(IF existing.level = 0 THEN 1 ELSE existing.level,
                        IF currentLevel = 0 THEN 1 ELSE currentLevel)
        newScore == existing.score + incrementalScore
    IN  MapSet(leaderboardScores, playerAddress, [level |-> newLevel, score |-> newScore])

(***************************************************************************)
(* Requests to the backend.  A handler runs without interruption up to an  *)
(* await on the network; `handlers` holds the requests suspended there.    *)
(***************************************************************************)
MaxTokens == 1
MaxInFlight == 2

Idle == [pc |-> "idle"]
Slots == 1..MaxInFlight
FreeSlot(h) == handlers[h] = Idle /\ \A g \in Slots : g < h => handlers[g] # Idle

\* both handles are created together (server.js 24-53)
contract == contractWithSigner

ServerInit ==
    /\ activeRounds = EmptyMap
    /\ leaderboardScores = EmptyMap
    /\ playerLevels = EmptyMap
    /\ contractWithSigner \in BOOLEAN
    /\ nextToken = 1
    /\ handlers = [h \in Slots |-> Idle]
    /\ response = [status |-> 0]
    /\ ledgerCalls = [t \in 1..MaxTokens |-> 0]
    /\ settlements = [t \in 1..MaxTokens |-> 0]
    /\ payoutLog = [outcome |-> "none"]

Respond(status, body) == response' = [status |-> status] @@ body

\* ---- POST /api/round/start/infinite (server.js 330-368) ----
\* the part after currentLevel is known (lines 340-363)
issueInfiniteRound(playerAddress, currentLevel, sequence) ==
    LET difficulty == calculateInfiniteDifficulty(currentLevel)
        round == [roundId |-> nextToken, playerAddress |-> playerAddress,
                  sequence |-> sequence, gridSize |-> difficulty.gridSize,
                  steps |-> difficulty.steps, timeLimit |-> difficulty.timeLimit,
                  roundType |-> INFINITE, level |-> currentLevel]
    IN  /\ sequence \in generateSequence(difficulty.gridSize, difficulty.steps)
        /\ activeRounds' = MapSet(activeRounds, nextToken, round)
        /\ nextToken' = nextToken + 1
        /\ Respond(200, [op |-> "startInfinite", roundId |-> nextToken,
                         level |-> currentLevel])

\* level is the request's level field; an absent field and 0 are both falsy
\* at line 339 and are written 0
startInfinite(h, playerAddress, level, sequence) ==
    /\ FreeSlot(h)
    /\ nextToken <= MaxTokens
    /\ UNCHANGED <<ledgerVars, payoutLog, contractWithSigner, leaderboardScores, ledgerCalls,
                   settlements>>
    /\ IF level # 0
       THEN /\ issueInfiniteRound(playerAddress, level, sequence)
            /\ UNCHANGED <<playerLevels, handlers>>
       ELSE IF playerAddress \in DOMAIN playerLevels
       THEN /\ issueInfiniteRound(playerAddress, playerLevels[playerAddress], sequence)
            /\ UNCHANGED <<playerLevels, handlers>>
       ELSE IF contract
       THEN /\ handlers' = [handlers EXCEPT ![h] =
                   [pc |-> "startAwaitStats", playerAddress |-> playerAddress]]
            /\ UNCHANGED <<activeRounds, nextToken, response, playerLevels>>
       ELSE /\ issueInfiniteRound(playerAddress, 1, sequence)
            /\ UNCHANGED <<playerLevels, handlers>>

\* getPlayerCurrentLevel after its await (server.js 191-201): contract.playerStats
\* answered [ok |-> TRUE, currentLevel |-> n] or threw [ok |-> FALSE]
FetchedLevel(fetched) ==
    IF ~fetched.ok THEN 1
    ELSE IF fetched.currentLevel = 0 THEN 1 ELSE fetched.currentLevel

LevelsAfterFetch(playerAddress, fetched) ==
    IF ~fetched.ok THEN playerLevels
    ELSE MapSet(playerLevels, playerAddress, FetchedLevel(fetched))

startStatsArrive(h, fetched, sequence) ==
    /\ handlers[h].pc = "startAwaitStats"
    /\ nextToken <= MaxTokens
    /\ LET playerAddress == handlers[h].playerAddress
       IN  /\ issueInfiniteRound(playerAddress, FetchedLevel(fetched), sequence)
           /\ playerLevels' = LevelsAfterFetch(playerAddress, fetched)
    /\ handlers' = [handlers EXCEPT ![h] = Idle]
    /\ UNCHANGED <<ledgerVars, payoutLog, contractWithSigner, leaderboardScores, ledgerCalls,
                   settlements>>

\* ---- POST /api/round/submit/infinite (server.js 371-459) ----
\* lines 432-453: after the ledger call, or at once when it is skipped
finishInfinite(f, txHash) ==
    /\ leaderboardScores' = updateLeaderboardRankings(f.playerAddress, f.nextLevel, f.score)
    /\ activeRounds' = MapDelete(activeRounds, f.roundId)
    /\ settlements' = [settlements EXCEPT ![f.roundId] = @ + 1]
    /\ Respond(200, [op |-> "submitInfinite", roundId |-> f.roundId,
                     playerAddress |-> f.playerAddress, score |-> f.score,
                     correctSteps |-> f.correctSteps, timeExpired |-> f.timeExpired,
                     verified |-> f.verified, isPerfect |-> f.isPerfect,
                     canContinue |-> f.isPerfect /\ f.verified /\ ~f.timeExpired,
                     nextLevel |-> f.nextLevel, txHash |-> txHash])

\* submit handlers without the check of lines 380-382 and 589-591
submitStatusNoOwnerCheck(roundId, playerAddress) ==
    IF roundId \notin DOMAIN activeRounds THEN 404 ELSE 200

\* lines 375-382 and 584-591: the status the checks on the token give
submitStatus(roundId, playerAddress) ==
    IF roundId \notin DOMAIN activeRounds THEN 404
    ELSE IF activeRounds[roundId].playerAddress # playerAddress THEN 403
    ELSE 200

RoundNotFound == "Round not found"
Unauthorized == "Unauthorized"

\* the ledger call made whether or not verification passed
recordsOnChainUnverified(verified) == contractWithSigner

\* lines 414 and 615: the condition under which the ledger is called
recordsOnChain(verified) == verified /\ contractWithSigner

submitInfinite(h, roundId, playerAddress, clicks, telemetry, timeElapsedMs) ==
    /\ FreeSlot(h)
    /\ UNCHANGED <<ledgerVars, payoutLog, contractWithSigner, nextToken>>
    /\ IF submitStatus(roundId, playerAddress) = 404
       THEN /\ Respond(404, [op |-> "submitInfinite", roundId |-> roundId,
                             playerAddress |-> playerAddress,
                             error |-> RoundNotFound])
            /\ UNCHANGED <<activeRounds, leaderboardScores, playerLevels, handlers,
                           ledgerCalls, settlements>>
       ELSE IF submitStatus(roundId, playerAddress) = 403
       THEN /\ Respond(403, [op |-> "submitInfinite", roundId |-> roundId,
                             playerAddress |-> playerAddress,
                             error |-> Unauthorized])
            /\ UNCHANGED <<activeRounds, leaderboardScores, playerLevels, handlers,
                           ledgerCalls, settlements>>
       ELSE
         LET round == activeRounds[roundId]
             correctSteps == countCorrect(clicks, round.sequence, 1)
             isPerfect == correctSteps = round.steps
             timeExpired == timeElapsedMs > round.timeLimit
             score == calculateInfiniteScore(correctSteps, round.steps,
                          timeElapsedMs, round.timeLimit, round.level)
             verified == verifyRound(round, telemetry)
             levelUp == isPerfect /\ verified /\ ~timeExpired
             nextLevel == IF levelUp THEN round.level + 1 ELSE round.level
             f == [pc |-> "infiniteAwaitLedger", roundId |-> roundId,
                   playerAddress |-> playerAddress, score |-> score,
                   correctSteps |-> correctSteps, timeExpired |-> timeExpired,
                   verified |-> verified, isPerfect |-> isPerfect,
                   nextLevel |-> nextLevel]
         IN  /\ playerLevels' = IF levelUp
                                THEN MapSet(playerLevels, playerAddress, nextLevel)
                                ELSE playerLevels
             /\ IF recordsOnChain(verified)
                THEN /\ ledgerCalls' = [ledgerCalls EXCEPT ![roundId] = @ + 1]
                     /\ handlers' = [handlers EXCEPT ![h] = f]
                     /\ UNCHANGED <<activeRounds, leaderboardScores, settlements,
                                    response>>
                ELSE /\ finishInfinite(f, "null")
                     /\ UNCHANGED <<handlers, ledgerCalls>>

\* the awaited recordInfiniteRound settles: a receipt, or an error that is caught
infiniteLedgerReturns(h, outcome) ==
    /\ handlers[h].pc = "infiniteAwaitLedger"
    /\ finishInfinite(handlers[h], IF outcome = "receipt" THEN "hash" ELSE "null")
    /\ handlers' = [handlers EXCEPT ![h] = Idle]
    /\ UNCHANGED <<ledgerVars, payoutLog, contractWithSigner, nextToken, playerLevels,
                   ledgerCalls>>

\* ---- POST /api/round/start/daily (server.js 499-577) ----
Today == 20251101

\* lines 542-572
issueDailyRound(playerAddress, sequence) ==
    LET challengeConfig == config.dailyChallenge.challenge
        round == [roundId |-> nextToken, playerAddress |-> playerAddress,
                  sequence |-> sequence, gridSize |-> challengeConfig.gridSize,
                  steps |-> challengeConfig.steps,
                  timeLimit |-> challengeConfig.timeLimit,
                  roundType |-> DAILY_CHALLENGE, dateNum |-> Today]
    IN  /\ sequence \in generateSequence(challengeConfig.gridSize, challengeConfig.steps)
        /\ activeRounds' = MapSet(activeRounds, nextToken, round)
        /\ nextToken' = nextToken + 1
        /\ Respond(200, [op |-> "startDaily", roundId |-> nextToken])

startDaily(h, playerAddress, sequence) ==
    /\ FreeSlot(h)
    /\ nextToken <= MaxTokens
    /\ UNCHANGED <<ledgerVars, payoutLog, contractWithSigner, leaderboardScores, playerLevels,
                   ledgerCalls, settlements>>
    /\ IF contract
       THEN /\ handlers' = [handlers EXCEPT ![h] =
                   [pc |-> "dailyAwaitStatus", playerAddress |-> playerAddress]]
            /\ UNCHANGED <<activeRounds, nextToken, response>>
       ELSE /\ issueDailyRound(playerAddress, sequence)
            /\ UNCHANGED handlers

\* contract.getDailyStatus answered [ok |-> TRUE, triesUsed, completed] or
\* threw [ok |-> FALSE], which lines 538-540 swallow
dailyStatusArrives(h, status, sequence) ==
    /\ handlers[h].pc = "dailyAwaitStatus"
    /\ nextToken <= MaxTokens
    /\ handlers' = [handlers EXCEPT ![h] = Idle]
    /\ UNCHANGED <<ledgerVars, payoutLog, contractWithSigner, leaderboardScores, playerLevels,
                   ledgerCalls, settlements>>
    /\ IF status.ok /\ status.triesUsed >= config.dailyChallenge.maxTriesPerDay
       THEN /\ Respond(400, [op |-> "startDaily", error |-> "TRIES_EXCEEDED"])
            /\ UNCHANGED <<activeRounds, nextToken>>
       ELSE IF status.ok /\ status.completed
       THEN /\ Respond(400, [op |-> "startDaily", error |-> "ALREADY_COMPLETED"])
            /\ UNCHANGED <<activeRounds, nextToken>>
       ELSE issueDailyRound(handlers[h].playerAddress, sequence)

\* ---- POST /api/round/submit/daily (server.js 580-672) ----
\* lines 645-666, once currentLevel is known
finishDaily(f, currentLevel) ==
    /\ leaderboardScores' = updateLeaderboardRankings(f.playerAddress, currentLevel, f.score)
    /\ activeRounds' = MapDelete(activeRounds, f.roundId)
    /\ settlements' = [settlements EXCEPT ![f.roundId] = @ + 1]
    /\ Respond(200, [op |-> "submitDaily", roundId |-> f.roundId,
                     playerAddress |-> f.playerAddress, score |-> f.score,
                     correctSteps |-> f.correctSteps, timeExpired |-> f.timeExpired,
                     verified |-> f.verified, isPerfect |-> f.isPerfect,
                     passed |-> f.passed, rewardEarned |-> f.rewardEarned,
                     txHash |-> f.txHash])

\* line 644: getPlayerCurrentLevel answers at once from the cache or without a
\* contract, and otherwise awaits the contract
resumeDaily(h, f) ==
    IF f.playerAddress \in DOMAIN playerLevels
    THEN /\ finishDaily(f, playerLevels[f.playerAddress])
         /\ handlers' = [handlers EXCEPT ![h] = Idle]
         /\ UNCHANGED playerLevels
    ELSE IF contract
    THEN /\ handlers' = [handlers EXCEPT ![h] = [f EXCEPT !.pc = "dailyAwaitLevel"]]
         /\ UNCHANGED <<activeRounds, leaderboardScores, settlements, response,
                        playerLevels>>
    ELSE /\ finishDaily(f, 1)
         /\ handlers' = [handlers EXCEPT ![h] = Idle]
         /\ UNCHANGED playerLevels

submitDaily(h, roundId, playerAddress, clicks, telemetry, timeElapsedMs) ==
    /\ FreeSlot(h)
    /\ UNCHANGED <<ledgerVars, payoutLog, contractWithSigner, nextToken>>
    /\ IF submitStatus(roundId, playerAddress) = 404
       THEN /\ Respond(404, [op |-> "submitDaily", roundId |-> roundId,
                             playerAddress |-> playerAddress,
                             error |-> RoundNotFound])
            /\ UNCHANGED <<activeRounds, leaderboardScores, playerLevels, handlers,
                           ledgerCalls, settlements>>
       ELSE IF submitStatus(roundId, playerAddress) = 403
       THEN /\ Respond(403, [op |-> "submitDaily", roundId |-> roundId,
                             playerAddress |-> playerAddress,
                             error |-> Unauthorized])
            /\ UNCHANGED <<activeRounds, leaderboardScores, playerLevels, handlers,
                           ledgerCalls, settlements>>
       ELSE
         LET round == activeRounds[roundId]
             correctSteps == countCorrect(clicks, round.sequence, 1)
             isPerfect == correctSteps = round.steps
             timeExpired == timeElapsedMs > round.timeLimit
             passed == isPerfect /\ ~timeExpired
             score == calculateDailyScore(correctSteps, round.steps,
                          timeElapsedMs, round.timeLimit)
             verified == verifyRound(round, telemetry)
             f == [pc |-> "dailyAwaitLedger", roundId |-> roundId,
                   playerAddress |-> playerAddress, score |-> score,
                   correctSteps |-> correctSteps, timeExpired |-> timeExpired,
                   verified |-> verified, isPerfect |-> isPerfect,
                   passed |-> passed, rewardEarned |-> FALSE, txHash |-> "null"]
         IN  IF recordsOnChain(verified)
             THEN /\ ledgerCalls' = [ledgerCalls EXCEPT ![roundId] = @ + 1]
                  /\ handlers' = [handlers EXCEPT ![h] = f]
                  /\ UNCHANGED <<activeRounds, leaderboardScores, playerLevels,
                                 settlements, response>>
             ELSE /\ resumeDaily(h, f)
                  /\ UNCHANGED ledgerCalls

\* the awaited recordDailyChallenge settles: "receipt", "alreadyCompleted"
\* (lines 629-636) or another error, which is logged (line 637)
dailyLedgerReturns(h, outcome) ==
    /\ handlers[h].pc = "dailyAwaitLedger"
    /\ UNCHANGED <<ledgerVars, payoutLog, contractWithSigner, nextToken, ledgerCalls>>
    /\ LET f == handlers[h] IN
       IF outcome = "alreadyCompleted"
       THEN /\ activeRounds' = MapDelete(activeRounds, f.roundId)
            /\ Respond(400, [op |-> "submitDaily", roundId |-> f.roundId,
                             playerAddress |-> f.playerAddress,
                             error |-> "ALREADY_COMPLETED"])
            /\ handlers' = [handlers EXCEPT ![h] = Idle]
            /\ UNCHANGED <<leaderboardScores, playerLevels, settlements>>
       ELSE resumeDaily(h, IF outcome = "receipt"
                           THEN [f EXCEPT !.txHash = "hash", !.rewardEarned = f.passed]
                           ELSE f)

dailyLevelArrives(h, fetched) ==
    /\ handlers[h].pc = "dailyAwaitLevel"
    /\ UNCHANGED <<ledgerVars, payoutLog, contractWithSigner, nextToken, ledgerCalls>>
    /\ LET f == handlers[h] IN
       /\ finishDaily(f, FetchedLevel(fetched))
       /\ playerLevels' = LevelsAfterFetch(f.playerAddress, fetched)
    /\ handlers' = [handlers EXCEPT ![h] = Idle]

\* ---- a submit whose body cannot be graded (server.js 385, 594, 156) ----
\* clicks that is not an array, or that holds an element without properties,
\* makes the map of line 385 / 594 throw a TypeError, and so does telemetry
\* whose clicks cannot be mapped (line 156): the handler has passed the
\* checks of 376-382 / 585-591, and the outer catch (455-458, 668-671)
\* answers 500 without touching the tables
submitThrows(h, op, roundId, playerAddress) ==
    /\ FreeSlot(h)
    /\ submitStatus(roundId, playerAddress) = 200
    /\ Respond(500, [op |-> op, roundId |-> roundId, playerAddress |-> playerAddress,
                     error |-> "TypeError"])
    /\ UNCHANGED <<ledgerVars, payoutLog, contractWithSigner, nextToken, activeRounds,
                   leaderboardScores, playerLevels, handlers, ledgerCalls,
                   settlements>>

\* ---- processLeaderboardPayout (server.js 228-303) ----
\* a comparator that sorts by score first and by level second
RanksBeforeByScore(a, b) ==
    \/ leaderboardScores[a].score > leaderboardScores[b].score
    \/ /\ leaderboardScores[a].score = leaderboardScores[b].score
       /\ leaderboardScores[a].level > leaderboardScores[b].level

\* lines 232-235: a sorts before b
RanksBefore(a, b) ==
    \/ leaderboardScores[a].level > leaderboardScores[b].level
    \/ /\ leaderboardScores[a].level = leaderboardScores[b].level
       /\ leaderboardScores[a].score > leaderboardScores[b].score

\* lines 231-235: the orders the sort can leave the entries of the map in: the
\* first is one that no other entry ranks before, and so on.  Players the
\* comparator ties keep the Map's insertion order, which the model does not
\* keep: either order is allowed
RECURSIVE SortedOrders(_)
SortedOrders(S) ==
    IF S = {} THEN {<<>>}
    ELSE UNION {{<<m>> \o q : q \in SortedOrders(S \ {m})} :
                   m \in {x \in S : \A y \in S : ~RanksBefore(y, x)}}

\* lines 231-236: the sorted players, cut to the top count
Rankings ==
    LET S == DOMAIN leaderboardScores
        n == Min(Cardinality(S), config.leaderboard.topPlayersCount)
    IN  {SubSeq(q, 1, n) : q \in SortedOrders(S)}

\* lines 246-257: the three arrays, filled up with the zero address and zeros
PayoutArrays(sortedPlayers) ==
    LET topCount == config.leaderboard.topPlayersCount
        n == Len(sortedPlayers)
    IN  [addresses |-> [i \in 1..topCount |->
                           IF i <= n THEN sortedPlayers[i] ELSE AddressZero],
         scores |-> [i \in 1..topCount |->
                        IF i <= n THEN leaderboardScores[sortedPlayers[i]].score ELSE 0],
         levels |-> [i \in 1..topCount |->
                        IF i <= n THEN leaderboardScores[sortedPlayers[i]].level ELSE 0]]

\* a job that keeps the accumulated scores when the ledger call failed
ScoresKeptOnFailure(outcome) ==
    IF outcome = "failed" THEN leaderboardScores ELSE EmptyMap

\* line 297: leaderboardScores.clear(), whatever the call's outcome
ScoresAfterPayout(outcome) == EmptyMap

\* up to the await of line 272
processLeaderboardPayout(h, sortedPlayers) ==
    /\ FreeSlot(h)
    /\ \A g \in Slots : handlers[g].pc # "payoutAwaitUpdate"
    /\ sortedPlayers \in Rankings
    /\ UNCHANGED <<ledgerVars, contractWithSigner, activeRounds, nextToken, response,
                   ledgerCalls, settlements>>
    /\ IF Len(sortedPlayers) = 0
       THEN /\ leaderboardScores' = EmptyMap
            /\ playerLevels' = EmptyMap
            /\ payoutLog' = [outcome |-> "empty"]
            /\ UNCHANGED handlers
       ELSE IF ~contractWithSigner
       THEN /\ leaderboardScores' = EmptyMap
            /\ playerLevels' = EmptyMap
            /\ payoutLog' = [outcome |-> "skipped"] @@ PayoutArrays(sortedPlayers)
            /\ UNCHANGED handlers
       ELSE /\ handlers' = [handlers EXCEPT ![h] = [pc |-> "payoutAwaitUpdate"]]
            /\ payoutLog' = [outcome |-> "calling"] @@ PayoutArrays(sortedPlayers)
            /\ UNCHANGED <<leaderboardScores, playerLevels>>

\* lines 273-298: updateLeaderboard gave a receipt ("updated") or threw
\* ("failed", logged at 276); the contract has no resetDailyStats, so line
\* 286 throws at once and is logged at 293; then both maps are cleared
payoutUpdateReturns(h, outcome) ==
    /\ handlers[h].pc = "payoutAwaitUpdate"
    /\ handlers' = [handlers EXCEPT ![h] = Idle]
    /\ payoutLog' = [payoutLog EXCEPT !.outcome = outcome]
    /\ leaderboardScores' = ScoresAfterPayout(outcome)
    /\ playerLevels' = EmptyMap
    /\ UNCHANGED <<ledgerVars, contractWithSigner, activeRounds, nextToken, response,
                   ledgerCalls, settlements>>

(***************************************************************************)
(* The server variant of scripts/interact.js (218-631).  It keeps its own  *)
(* activeRounds table and always has a signer; its scores depend on keys   *)
(* of game-config.json and are left out.                                   *)
(***************************************************************************)
\* lines 241-255
getDifficultyForLevel(level) ==
    [gridSize |-> Min(5, 3 + (level \div 5)), steps |-> 3 + (level \div 2)]

\* lines 457-464 and 534-541: every position that matches is counted
RECURSIVE countMatches(_, _, _)
countMatches(clicked, sequence, i) ==
    IF i > Min(Len(clicked), Len(sequence)) THEN 0
    ELSE (IF clicked[i] = sequence[i] THEN 1 ELSE 0)
         + countMatches(clicked, sequence, i + 1)

\* lines 258-281
variantVerifyRound(roundData, telemetry) ==
    IF Len(telemetry.clicks) = 0 THEN TRUE
    ELSE
        LET reactionTimes == [i \in 1..Len(telemetry.clicks) |->
                IF i = 1 THEN telemetry.clicks[1] - telemetry.sequenceStartTs
                ELSE telemetry.clicks[i] - telemetry.clicks[i - 1]]
        IN  ~(SumSeq(reactionTimes)
                < config.antiCheat.minReactionTimeMs * Len(reactionTimes))

\* The model stops calling the ledger for a token after MaxCalls calls
MaxCalls == 2

VariantUnchanged ==
    UNCHANGED <<ledgerVars, payoutLog, contractWithSigner, leaderboardScores, playerLevels,
                settlements>>

\* ---- POST /api/round/start/infinite (interact.js 333-377) ----
variantStartInfinite(h, playerAddress, level, sequence) ==
    LET currentLevel == IF level = 0 THEN 1 ELSE level
        difficultyConfig == getDifficultyForLevel(currentLevel)
        round == [roundId |-> nextToken, playerAddress |-> playerAddress,
                  sequence |-> sequence, gridSize |-> difficultyConfig.gridSize,
                  steps |-> difficultyConfig.steps, roundType |-> INFINITE,
                  level |-> currentLevel]
    IN  /\ FreeSlot(h)
        /\ nextToken <= MaxTokens
        /\ sequence \in generateSequence(difficultyConfig.gridSize, difficultyConfig.steps)
        /\ activeRounds' = MapSet(activeRounds, nextToken, round)
        /\ nextToken' = nextToken + 1
        /\ Respond(200, [op |-> "startInfinite", roundId |-> nextToken])
        /\ UNCHANGED <<handlers, ledgerCalls>>
        /\ VariantUnchanged

\* ---- POST /api/round/start/daily (interact.js 380-441) ----
variantStartDaily(h, playerAddress) ==
    /\ FreeSlot(h)
    /\ nextToken <= MaxTokens
    /\ handlers' = [handlers EXCEPT ![h] =
           [pc |-> "variantAwaitCompleted", playerAddress |-> playerAddress]]
    /\ UNCHANGED <<activeRounds, nextToken, response, ledgerCalls>>
    /\ VariantUnchanged

\* contract.hasCompletedDailyChallenge answered "true" or "false", or threw
variantCompletedArrives(h, hasCompleted, sequence) ==
    LET playerAddress == handlers[h].playerAddress
        round == [roundId |-> nextToken, playerAddress |-> playerAddress,
                  sequence |-> sequence, gridSize |-> 4, steps |-> 8,
                  roundType |-> DAILY_CHALLENGE, dateNum |-> Today]
    IN  /\ handlers[h].pc = "variantAwaitCompleted"
        /\ nextToken <= MaxTokens
        /\ handlers' = [handlers EXCEPT ![h] = Idle]
        /\ UNCHANGED ledgerCalls
        /\ VariantUnchanged
        /\ IF hasCompleted = "throws"
           THEN /\ Respond(500, [op |-> "startDaily"])
                /\ UNCHANGED <<activeRounds, nextToken>>
           ELSE IF hasCompleted = "true"
           THEN /\ Respond(400, [op |-> "startDaily", error |-> "ALREADY_COMPLETED"])
                /\ UNCHANGED <<activeRounds, nextToken>>
           ELSE /\ sequence \in generateSequence(4, 8)
                /\ activeRounds' = MapSet(activeRounds, nextToken, round)
                /\ nextToken' = nextToken + 1
                /\ Respond(200, [op |-> "startDaily", roundId |-> nextToken])

\* the rejections of lines 448-455 and 525-532
variantReject(op, roundId, playerAddress) ==
    /\ Respond(submitStatus(roundId, playerAddress),
               [op |-> op, roundId |-> roundId, playerAddress |-> playerAddress,
                error |-> IF submitStatus(roundId, playerAddress) = 404
                          THEN RoundNotFound ELSE Unauthorized])
    /\ UNCHANGED <<activeRounds, handlers, ledgerCalls, nextToken>>
    /\ VariantUnchanged

\* ---- POST /api/round/submit/infinite (interact.js 444-518) ----
variantSubmitInfinite(h, roundId, playerAddress, clicks, telemetry) ==
    /\ FreeSlot(h)
    /\ IF submitStatus(roundId, playerAddress) # 200
       THEN variantReject("submitInfinite", roundId, playerAddress)
       ELSE
         LET round == activeRounds[roundId]
             correctSteps == countMatches(clicks, round.sequence, 1)
             verified == variantVerifyRound(round, telemetry)
         IN  /\ ledgerCalls[roundId] < MaxCalls
             /\ ledgerCalls' = [ledgerCalls EXCEPT ![roundId] = @ + 1]
             /\ handlers' = [handlers EXCEPT ![h] =
                    [pc |-> "variantInfiniteAwaitLedger", roundId |-> roundId,
                     playerAddress |-> playerAddress, correctSteps |-> correctSteps,
                     verified |-> verified,
                     isPerfect |-> correctSteps = round.steps]]
             /\ UNCHANGED <<activeRounds, nextToken, response>>
             /\ VariantUnchanged

\* lines 485-517: the awaited call gives a receipt, or throws and lines
\* 514-517 answer 500 with the round still in the table
variantInfiniteLedgerReturns(h, outcome) ==
    LET f == handlers[h] IN
    /\ f.pc = "variantInfiniteAwaitLedger"
    /\ handlers' = [handlers EXCEPT ![h] = Idle]
    /\ UNCHANGED <<nextToken, ledgerCalls>>
    /\ VariantUnchanged
    /\ IF outcome = "receipt"
       THEN /\ activeRounds' = MapDelete(activeRounds, f.roundId)
            /\ Respond(200, [op |-> "submitInfinite", roundId |-> f.roundId,
                             playerAddress |-> f.playerAddress,
                             correctSteps |-> f.correctSteps,
                             verified |-> f.verified, isPerfect |-> f.isPerfect,
                             canContinue |-> f.isPerfect, txHash |-> "hash"])
       ELSE /\ Respond(500, [op |-> "submitInfinite", roundId |-> f.roundId,
                             playerAddress |-> f.playerAddress])
            /\ UNCHANGED activeRounds

\* ---- POST /api/round/submit/daily (interact.js 521-631) ----
variantSubmitDaily(h, roundId, playerAddress, clicks, telemetry) ==
    /\ FreeSlot(h)
    /\ IF submitStatus(roundId, playerAddress) # 200
       THEN variantReject("submitDaily", roundId, playerAddress)
       ELSE
         LET round == activeRounds[roundId]
             correctSteps == countMatches(clicks, round.sequence, 1)
             verified == variantVerifyRound(round, telemetry)
             isPerfect == correctSteps = round.steps
         IN  /\ VariantUnchanged
             /\ UNCHANGED nextToken
             /\ IF isPerfect /\ verified
                THEN /\ ledgerCalls[roundId] < MaxCalls
                     /\ ledgerCalls' = [ledgerCalls EXCEPT ![roundId] = @ + 1]
                     /\ handlers' = [handlers EXCEPT ![h] =
                            [pc |-> "variantDailyAwaitLedger", roundId |-> roundId,
                             playerAddress |-> playerAddress,
                             correctSteps |-> correctSteps, verified |-> verified]]
                     /\ UNCHANGED <<activeRounds, response>>
                ELSE /\ activeRounds' = MapDelete(activeRounds, roundId)
                     /\ Respond(200, [op |-> "submitDaily", roundId |-> roundId,
                                      playerAddress |-> playerAddress,
                                      correctSteps |-> correctSteps,
                                      verified |-> verified, isPerfect |-> FALSE,
                                      rewardEligible |-> FALSE, txHash |-> "null"])
                     /\ UNCHANGED <<handlers, ledgerCalls>>

\* lines 565-607: a receipt, the "Already completed today" revert, or another
\* error, which is thrown again and answered 500 at lines 627-630
variantDailyLedgerReturns(h, outcome) ==
    LET f == handlers[h] IN
    /\ f.pc = "variantDailyAwaitLedger"
    /\ handlers' = [handlers EXCEPT ![h] = Idle]
    /\ UNCHANGED <<nextToken, ledgerCalls>>
    /\ VariantUnchanged
    /\ IF outcome = "receipt"
       THEN /\ activeRounds' = MapDelete(activeRounds, f.roundId)
            /\ Respond(200, [op |-> "submitDaily", roundId |-> f.roundId,
                             playerAddress |-> f.playerAddress,
                             correctSteps |-> f.correctSteps,
                             verified |-> f.verified, isPerfect |-> TRUE,
                             rewardEligible |-> TRUE, txHash |-> "hash"])
       ELSE IF outcome = "alreadyCompleted"
       THEN /\ activeRounds' = MapDelete(activeRounds, f.roundId)
            /\ Respond(400, [op |-> "submitDaily", roundId |-> f.roundId,
                             playerAddress |-> f.playerAddress,
                             error |-> "ALREADY_COMPLETED"])
       ELSE /\ Respond(500, [op |-> "submitDaily", roundId |-> f.roundId,
                             playerAddress |-> f.playerAddress])
            /\ UNCHANGED activeRounds

(***************************************************************************)
(* The calls the environment makes to the contract                         *)
(***************************************************************************)
InfiniteInput(score, correctSteps, timeExpired, verified) ==
    [score |-> score, gridSize |-> 3, steps |-> 2, correctSteps |-> correctSteps,
     timeElapsedMs |-> 500, timeLimitMs |-> 1000,
     timeExpired |-> timeExpired, verified |-> verified]

\* A perfect round of five steps that took 2500 ms of 10000
FiveStepInput ==
    [InfiniteInput(60, 5, FALSE, TRUE) EXCEPT
        !.steps = 5, !.timeElapsedMs = 2500, !.timeLimitMs = 10000]

\* Arguments of recordInfiniteRound that pass the requires: a perfect verified
\* round in time with either score, and rounds that are partial, late,
\* unverified, or partial and late
ValidInfiniteInputs ==
    {InfiniteInput(10, 2, FALSE, TRUE), InfiniteInput(20, 2, FALSE, TRUE),
     InfiniteInput(20, 1, FALSE, TRUE), InfiniteInput(20, 2, TRUE, TRUE),
     InfiniteInput(20, 2, FALSE, FALSE), InfiniteInput(20, 1, TRUE, TRUE),
     FiveStepInput}

\* Arguments that a require of lines 131-133 rejects: steps 0 and 51,
\* correctSteps above steps, gridSize 1 and 11, the last of a late round
MalformedInfiniteInputs ==
    {[InfiniteInput(10, 0, FALSE, TRUE) EXCEPT !.steps = 0],
     [InfiniteInput(10, 51, FALSE, TRUE) EXCEPT !.steps = 51],
     InfiniteInput(10, 3, FALSE, TRUE),
     [InfiniteInput(10, 2, FALSE, TRUE) EXCEPT !.gridSize = 1],
     [InfiniteInput(10, 2, TRUE, TRUE) EXCEPT !.gridSize = 11]}

\* Arguments that a require or the checked arithmetic rejects
InvalidInfiniteInputs ==
    MalformedInfiniteInputs
        \cup {[InfiniteInput(10, 2, FALSE, TRUE) EXCEPT !.timeLimitMs = 0]}

DailyInput(correctSteps, timeExpired, verified) ==
    [score |-> 10, correctSteps |-> correctSteps, totalSteps |-> 8,
     timeElapsedMs |-> 4500, timeLimitMs |-> 10000,
     timeExpired |-> timeExpired, verified |-> verified]

DailyInputs ==
    {DailyInput(8, FALSE, TRUE), DailyInput(7, FALSE, TRUE),
     DailyInput(8, TRUE, TRUE), DailyInput(8, FALSE, FALSE)}

Pad(prefix) == prefix \o [i \in 1..(10 - Len(prefix)) |-> AddressZero]
NoScores == [i \in 1..10 |-> 0]
NoLevels == [i \in 1..10 |-> 0]

\* An identity that is not the owner
Intruder == "p1"

Init == LedgerInit /\ ServerInit

(***************************************************************************)
(* Spec: the ledger as infinite rounds, daily completions and leaderboard  *)
(* payouts are recorded                                                    *)
(***************************************************************************)
RecordInfiniteRound ==
    \E player \in Players, i \in ValidInfiniteInputs \cup InvalidInfiniteInputs :
        recordInfiniteRound(Owner, player, i.score, i.gridSize, i.steps,
                            i.correctSteps, i.timeElapsedMs, i.timeLimitMs,
                            i.timeExpired, i.verified)

RecordDaily ==
    \E player \in Players :
        LET i == DailyInput(8, FALSE, TRUE) IN
        recordDailyChallenge(Owner, player, 20251101, i.score, i.correctSteps,
                             i.totalSteps, i.timeElapsedMs, i.timeLimitMs,
                             i.timeExpired, i.verified)

SetDaily == setDailyChallenge(Owner, 20251101, 4, 8, 400, 250, 10000)

UpdateLeaderboard ==
    \E topPlayers \in {Pad(<<"p1">>), Pad(<<"p2", "p1">>), Pad(<<"p1", "p1">>),
                       [i \in 1..9 |-> AddressZero]} :
        updateLeaderboard(Owner, topPlayers, NoScores, NoLevels)

Next ==
    \/ RecordInfiniteRound
    \/ RecordDaily
    \/ SetDaily
    \/ UpdateLeaderboard

Spec == Init /\ [][Next]_vars

(***************************************************************************)
(* SpecDaily: the daily challenge of two dates                             *)
(***************************************************************************)
RecordDailyChallenge ==
    \E caller \in {Owner, Intruder}, player \in Players, date \in Dates,
       i \in DailyInputs :
        recordDailyChallenge(caller, player, date, i.score, i.correctSteps,
                             i.totalSteps, i.timeElapsedMs, i.timeLimitMs,
                             i.timeExpired, i.verified)

SetDailyChallenge ==
    \E date \in Dates : setDailyChallenge(Owner, date, 4, 8, 400, 250, 10000)

UpdateDailyChallengeReward ==
    \E newReward \in {100000, 150000} : updateDailyChallengeReward(Owner, newReward)

NextDaily ==
    \/ RecordDailyChallenge
    \/ SetDailyChallenge
    \/ UpdateDailyChallengeReward

SpecDaily == Init /\ [][NextDaily]_vars

(***************************************************************************)
(* The daily challenge with its reward pool: the owner funds the pool of a *)
(* date in steps of 0.002 ether and sets the reward to 0.002 ether or      *)
(* leaves it at the deployed 0.01 ether                                    *)
(***************************************************************************)
FundDailyChallenge ==
    \E caller \in {Owner, Intruder}, date \in Dates :
        fundDailyChallenge(caller, date, 20000)

SetPoolReward == updateDailyChallengeReward(Owner, 20000)

NextPool ==
    \/ RecordDailyChallenge
    \/ SetDailyChallenge
    \/ FundDailyChallenge
    \/ SetPoolReward

SpecPool == Init /\ [][NextPool]_vars

(***************************************************************************)
(* The ledger after a career of qualifying rounds: player p1 has had n     *)
(* perfect, verified rounds in time recorded, each with the same           *)
(* arguments, and nothing else has been called                             *)
(***************************************************************************)
Veteran == "p1"

QualifyingInput == InfiniteInput(10, 2, FALSE, TRUE)

\* lines 136, 175: the level stored after n qualifying rounds
StoredLevelAfter(n) == IF n = 0 THEN 0 ELSE n + 1

\* lines 146-149: the reward of each of these rounds
CareerReward ==
    RoundReward(QualifyingInput.steps, QualifyingInput.correctSteps,
                QualifyingInput.timeElapsedMs, QualifyingInput.timeLimitMs,
                QualifyingInput.timeExpired, QualifyingInput.verified)

\* lines 151-166: the k-th of these rounds as stored
CareerRound(k) ==
    [id |-> k, player |-> Veteran, roundType |-> INFINITE,
     level |-> EffectiveLevel(StoredLevelAfter(k - 1)),
     gridSize |-> QualifyingInput.gridSize, steps |-> QualifyingInput.steps,
     score |-> QualifyingInput.score,
     timeElapsedMs |-> QualifyingInput.timeElapsedMs,
     timeLimitMs |-> QualifyingInput.timeLimitMs,
     correctSteps |-> QualifyingInput.correctSteps, reward |-> CareerReward,
     timestamp |-> 1, verified |-> TRUE, failureReason |-> NONE]

\* lines 169-181: the player's stats after n of these rounds
CareerStats(n) ==
    [ZeroStats EXCEPT
        !.totalRounds = n,
        !.totalScore = n * QualifyingInput.score,
        !.totalRewards = n * CareerReward,
        !.currentLevel = StoredLevelAfter(n),
        !.currentStreak = n,
        !.perfectRoundsCount = n,
        !.bestScore = IF n > 0 THEN QualifyingInput.score ELSE 0]

\* the contract's storage after n of these rounds
LedgerAfterCareer(n) ==
    /\ baseRewardPerStep = 10000
    /\ timeBonusMultiplier = 100
    /\ nextRoundId = n + 1
    /\ rounds = [k \in 1..n |-> CareerRound(k)]
    /\ playerRounds = [p \in Players |->
                          IF p = Veteran THEN [k \in 1..n |-> k] ELSE <<>>]
    /\ pendingRewards = [a \in Accounts |->
                            IF a = Veteran THEN n * CareerReward ELSE 0]
    /\ playerStats = [p \in Players |->
                         IF p = Veteran THEN CareerStats(n) ELSE ZeroStats]
    /\ dailyChallenges = [d \in Dates |-> ZeroChallenge]
    /\ currentDailyChallengeDate = 0
    /\ leaderboard = [i \in 0..9 |-> ZeroEntry]
    /\ lastLeaderboardUpdate = 0
    /\ dailyChallengeRewardPerCompletion = 100000
    /\ leaderboardRewardPool = 10000000
    /\ balance = 0
    /\ wallet = InitialFunds
    /\ blockTime = 1
    /\ stack = <<>>
    /\ credited = [a \in Accounts |-> IF a = Veteran THEN n * CareerReward ELSE 0]
    /\ paid = [a \in Callers |-> 0]
    /\ payouts = [a \in Accounts |-> 0]
    /\ payoutRuns = 0
    /\ configured = {}

\* the lengths of career the runs start from: none, and the rounds after
\* which the stored level is two below the greatest uint8
CareerLengths == {0, CareerBase}

InitCareer ==
    /\ \E n \in CareerLengths :
          /\ LedgerAfterCareer(n)
          /\ last = IF n = 0 THEN Call("constructor", Owner, Ok)
                    ELSE Call("recordInfiniteRound", Owner, Ok)
    /\ ServerInit

SpecCareer == InitCareer /\ [][RecordInfiniteRound]_vars

\* the start of a career run is a state the calls reach: a qualifying round of
\* the veteran recorded on the ledger after n rounds gives the ledger after
\* n + 1 rounds
CareerGrows ==
    \A n \in {0, 1, CareerBase, CareerBase + 1} :
        ( /\ LedgerAfterCareer(n)
          /\ last'.res = Ok
          /\ playerStats'[Veteran].currentLevel # playerStats[Veteran].currentLevel
          /\ playerStats'[Veteran].bestScore = QualifyingInput.score ) =>
            LedgerAfterCareer(n + 1)'

CareerIsReached == [][CareerGrows]_vars

(***************************************************************************)
(* SpecFunds: rewards are credited, the contract is funded, players        *)
(* withdraw                                                                *)
(***************************************************************************)
Credit ==
    \/ \E player \in Players :
         LET i == InfiniteInput(10, 2, FALSE, TRUE) IN
         recordInfiniteRound(Owner, player, i.score, i.gridSize, i.steps,
                             i.correctSteps, i.timeElapsedMs, i.timeLimitMs,
                             i.timeExpired, i.verified)
    \/ updateLeaderboard(Owner, Pad(<<"p1">>), NoScores, NoLevels)

WithdrawReward == \E caller \in Callers : withdrawReward(caller)

FundContract == \E caller \in {Owner, Intruder} : fundContract(caller, 20000)

Receive == \E caller \in Callers : receive(caller, 20000)

EmergencyWithdraw == \E caller \in {Owner, Intruder} : emergencyWithdraw(caller)

NextFunds ==
    \/ Credit
    \/ WithdrawReward
    \/ transferReturns
    \/ transferReverts
    \/ FundContract
    \/ Receive
    \/ EmergencyWithdraw

SpecFunds == Init /\ [][NextFunds]_vars

(***************************************************************************)
(* SpecBoard: the owner sets the leaderboard pool and pays the leaderboard *)
(***************************************************************************)
\* pools that divide by 100 and pools that do not
Pools == {0, 99, 105, 10000000}

Ranked(n) == [i \in 1..n |-> IF i % 2 = 1 THEN "p1" ELSE "p2"]
ScoresOf(n) == [i \in 1..n |-> 100 - i]
LevelsOf(n) == [i \in 1..n |-> 12 - i]

BoardCall(topPlayers, scores, levels) ==
    [topPlayers |-> topPlayers, scores |-> scores, levels |-> levels]

\* ten ranked players, one or two players and sentinels, sentinels only, and
\* arrays of nine or eleven entries
BoardCalls ==
    {BoardCall(Ranked(10), ScoresOf(10), LevelsOf(10)),
     BoardCall(Pad(<<"p2">>), ScoresOf(10), NoLevels),
     BoardCall(Pad(<<"p2", "p2">>), NoScores, LevelsOf(10)),
     BoardCall(Pad(<<>>), NoScores, NoLevels),
     BoardCall(Ranked(9), ScoresOf(10), LevelsOf(10)),
     BoardCall(Ranked(10), ScoresOf(9), LevelsOf(10)),
     BoardCall(Ranked(10), ScoresOf(10), LevelsOf(11)),
     BoardCall(Ranked(11), ScoresOf(11), LevelsOf(11))}

UpdateBoard ==
    \E caller \in {Owner, Intruder}, c \in BoardCalls :
        updateLeaderboard(caller, c.topPlayers, c.scores, c.levels)

UpdateLeaderboardPool ==
    \E caller \in {Owner, Intruder}, newPool \in Pools :
        updateLeaderboardPool(caller, newPool)

NextBoard ==
    \/ UpdateBoard
    \/ UpdateLeaderboardPool

SpecBoard == Init /\ [][NextBoard]_vars

(***************************************************************************)
(* SpecServer: clients start rounds and submit them, concurrently          *)
(***************************************************************************)
\* no clicks, a wrong second click, and the sequences themselves
ClickLists == {<<>>, <<0, 0>>, <<0, 1>>, <<0, 1, 1>>}
\* no telemetry, and clicks 10 ms apart
Telemetries ==
    {[sequenceStartTs |-> 0, clicks |-> <<>>],
     [sequenceStartTs |-> 0, clicks |-> <<10, 20>>]}
ElapsedTimes == {2500}
StatsAnswers ==
    {[ok |-> FALSE, currentLevel |-> 0], [ok |-> TRUE, currentLevel |-> 0],
     [ok |-> TRUE, currentLevel |-> 2]}
StatusAnswers ==
    {[ok |-> FALSE, triesUsed |-> 0, completed |-> FALSE],
     [ok |-> TRUE, triesUsed |-> 0, completed |-> FALSE],
     [ok |-> TRUE, triesUsed |-> 3, completed |-> FALSE],
     [ok |-> TRUE, triesUsed |-> 1, completed |-> TRUE]}
\* one sequence of every length a round of levels 1 to 4 can have
SomeSequences == {<<0, 1>>, <<0, 1, 1>>}
RoundIds == 1..MaxTokens

StartInfinite ==
    \E h \in Slots, playerAddress \in Players, level \in {0, 2},
       sequence \in SomeSequences :
        startInfinite(h, playerAddress, level, sequence)

StartStatsArrive ==
    \E h \in Slots, fetched \in StatsAnswers, sequence \in SomeSequences :
        startStatsArrive(h, fetched, sequence)

StartDaily ==
    \E h \in Slots, playerAddress \in Players, sequence \in SomeSequences :
        startDaily(h, playerAddress, sequence)

DailyStatusArrives ==
    \E h \in Slots, status \in StatusAnswers, sequence \in SomeSequences :
        dailyStatusArrives(h, status, sequence)

\* a daily round sent to the infinite handler has no level to compute with
\* (JavaScript undefined); the model leaves that request out
SubmitInfinite ==
    \E h \in Slots, roundId \in RoundIds, playerAddress \in Players,
       clicks \in ClickLists, telemetry \in Telemetries,
       timeElapsedMs \in ElapsedTimes :
        /\ roundId \in DOMAIN activeRounds => activeRounds[roundId].roundType = INFINITE
        /\ submitInfinite(h, roundId, playerAddress, clicks, telemetry, timeElapsedMs)

InfiniteLedgerReturns ==
    \E h \in Slots, outcome \in {"receipt", "error"} : infiniteLedgerReturns(h, outcome)

SubmitDaily ==
    \E h \in Slots, roundId \in RoundIds, playerAddress \in Players,
       clicks \in ClickLists, telemetry \in Telemetries,
       timeElapsedMs \in ElapsedTimes :
        submitDaily(h, roundId, playerAddress, clicks, telemetry, timeElapsedMs)

DailyLedgerReturns ==
    \E h \in Slots, outcome \in {"receipt", "alreadyCompleted", "error"} :
        dailyLedgerReturns(h, outcome)

DailyLevelArrives ==
    \E h \in Slots, fetched \in StatsAnswers : dailyLevelArrives(h, fetched)

NextServer ==
    \/ StartInfinite
    \/ StartStatsArrive
    \/ StartDaily
    \/ DailyStatusArrives
    \/ SubmitInfinite
    \/ InfiniteLedgerReturns
    \/ SubmitDaily
    \/ DailyLedgerReturns
    \/ DailyLevelArrives

SpecServer == Init /\ [][NextServer]_vars

(***************************************************************************)
(* The server's handlers with submits of any body, and with every awaited  *)
(* call of a suspended submit returning or throwing in the end             *)
(***************************************************************************)
SubmitMalformed ==
    \E h \in Slots, op \in {"submitInfinite", "submitDaily"}, roundId \in RoundIds,
       playerAddress \in Players :
        submitThrows(h, op, roundId, playerAddress)

NextSubmit ==
    \/ StartInfinite
    \/ StartStatsArrive
    \/ StartDaily
    \/ DailyStatusArrives
    \/ SubmitInfinite
    \/ InfiniteLedgerReturns
    \/ SubmitDaily
    \/ DailyLedgerReturns
    \/ DailyLevelArrives
    \/ SubmitMalformed

\* the promise a handler awaits settles: the ledger call returns or throws
AwaitsSettle ==
    \A h \in Slots :
        /\ WF_vars(\E outcome \in {"receipt", "error"} : infiniteLedgerReturns(h, outcome))
        /\ WF_vars(\E outcome \in {"receipt", "alreadyCompleted", "error"} :
                      dailyLedgerReturns(h, outcome))
        /\ WF_vars(\E fetched \in StatsAnswers : dailyLevelArrives(h, fetched))

SpecSubmit == Init /\ [][NextSubmit]_vars /\ AwaitsSettle

(***************************************************************************)
(* SpecDifficulty: infinite rounds are started at the level the request    *)
(* names, which line 339 accepts whenever it is truthy                     *)
(***************************************************************************)
RequestedLevels == {-4, -2, -1, 0, 1, 2, 3}
SequencesOfAnyLevel == {<<>>, <<0>>, <<0, 1>>, <<0, 1, 1>>}

StartInfiniteAtLevel ==
    \E h \in Slots, playerAddress \in Players, level \in RequestedLevels,
       sequence \in SequencesOfAnyLevel :
        startInfinite(h, playerAddress, level, sequence)

StartStatsArriveAtLevel ==
    \E h \in Slots, fetched \in StatsAnswers, sequence \in SequencesOfAnyLevel :
        startStatsArrive(h, fetched, sequence)

NextDifficulty ==
    \/ StartInfiniteAtLevel
    \/ StartStatsArriveAtLevel
    \/ SubmitInfinite
    \/ InfiniteLedgerReturns

SpecDifficulty == Init /\ [][NextDifficulty]_vars

(***************************************************************************)
(* SpecPayout: infinite rounds are played and the leaderboard payout job   *)
(* runs                                                                    *)
(***************************************************************************)
ProcessLeaderboardPayout ==
    \E h \in Slots, sortedPlayers \in Rankings :
        processLeaderboardPayout(h, sortedPlayers)

PayoutUpdateReturns ==
    \E h \in Slots, outcome \in {"updated", "failed"} : payoutUpdateReturns(h, outcome)

NextPayout ==
    \/ StartInfinite
    \/ StartStatsArrive
    \/ SubmitInfinite
    \/ InfiniteLedgerReturns
    \/ ProcessLeaderboardPayout
    \/ PayoutUpdateReturns

SpecPayout == Init /\ [][NextPayout]_vars

(***************************************************************************)
(* The payout job alone, fired after a day of play: the accumulation map   *)
(* holds what the submits of up to eleven players have left in it          *)
(***************************************************************************)
\* the addresses that played, in the order of their first submit
Entrants == <<"p1", "p2", "e3", "e4", "e5", "e6", "e7", "e8", "e9", "e10", "e11">>

\* lines 172-179: what updateLeaderboardRankings has accumulated for the i-th
\* entrant: levels of at least 1 and sums of scores; in day 1 no two entrants
\* have the same level and score, in day 2 all stayed at level 1 and pairs of
\* entrants have equal scores
Accumulated(i, day) ==
    IF day = 1
    THEN [level |-> 1 + (i % 3), score |-> ((7 * i) % 5) * 10]
    ELSE [level |-> 1, score |-> (i \div 2) * 10]

AccumulatedMaps ==
    {[a \in {Entrants[i] : i \in 1..n} |->
         Accumulated(CHOOSE i \in 1..n : Entrants[i] = a, day)] :
        n \in 0..Len(Entrants), day \in {1, 2}}

InitRanking ==
    /\ LedgerInit
    /\ activeRounds = EmptyMap
    /\ leaderboardScores \in AccumulatedMaps
    /\ playerLevels = EmptyMap
    /\ contractWithSigner \in BOOLEAN
    /\ nextToken = MaxTokens + 1
    /\ handlers = [h \in Slots |-> Idle]
    /\ response = [status |-> 0]
    /\ ledgerCalls = [t \in 1..MaxTokens |-> 0]
    /\ settlements = [t \in 1..MaxTokens |-> 0]
    /\ payoutLog = [outcome |-> "none"]

NextRanking ==
    \/ ProcessLeaderboardPayout
    \/ PayoutUpdateReturns

SpecRanking == InitRanking /\ [][NextRanking]_vars

(***************************************************************************)
(* SpecVariant: requests to the server variant of scripts/interact.js      *)
(***************************************************************************)
VariantDailySequence == <<0, 1, 1, 0, 0, 1, 0, 1>>
\* no clicks, the sequences themselves, and a wrong last click
VariantClickLists == {<<>>, <<0, 1, 1>>, <<0, 1, 0>>, VariantDailySequence}

VariantStartInfinite ==
    \E h \in Slots, playerAddress \in Players :
        variantStartInfinite(h, playerAddress, 0, <<0, 1, 1>>)

VariantStartDaily ==
    \E h \in Slots, playerAddress \in Players : variantStartDaily(h, playerAddress)

VariantCompletedArrives ==
    \E h \in Slots, hasCompleted \in {"true", "false", "throws"} :
        variantCompletedArrives(h, hasCompleted, VariantDailySequence)

VariantSubmitInfinite ==
    \E h \in Slots, roundId \in RoundIds, playerAddress \in Players,
       clicks \in VariantClickLists, telemetry \in Telemetries :
        variantSubmitInfinite(h, roundId, playerAddress, clicks, telemetry)

VariantInfiniteLedgerReturns ==
    \E h \in Slots, outcome \in {"receipt", "error"} :
        variantInfiniteLedgerReturns(h, outcome)

VariantSubmitDaily ==
    \E h \in Slots, roundId \in RoundIds, playerAddress \in Players,
       clicks \in VariantClickLists, telemetry \in Telemetries :
        variantSubmitDaily(h, roundId, playerAddress, clicks, telemetry)

VariantDailyLedgerReturns ==
    \E h \in Slots, outcome \in {"receipt", "alreadyCompleted", "error"} :
        variantDailyLedgerReturns(h, outcome)

NextVariant ==
    \/ VariantStartInfinite
    \/ VariantStartDaily
    \/ VariantCompletedArrives
    \/ VariantSubmitInfinite
    \/ VariantInfiniteLedgerReturns
    \/ VariantSubmitDaily
    \/ VariantDailyLedgerReturns

SpecVariant == Init /\ [][NextVariant]_vars

(***************************************************************************)
(* SpecStart: daily rounds are started while the ledger records the        *)
(* players' completions of today's challenge                               *)
(***************************************************************************)
\* MemorixGame has no getDailyStatus function (its getters are at lines
\* 310-332), so the call of server.js 515 throws and lines 538-540 catch it
DailyStatusThrows ==
    \E h \in Slots, sequence \in SomeSequences :
        dailyStatusArrives(h, [ok |-> FALSE, triesUsed |-> 0, completed |-> FALSE],
                           sequence)

NextStart ==
    \/ SetDaily
    \/ RecordDaily
    \/ StartDaily
    \/ DailyStatusThrows

SpecStart == Init /\ [][NextStart]_vars

(***************************************************************************)
(* Properties                                                              *)
(***************************************************************************)
\* the step in which withdrawReward, called by p, reaches its transfer
Transfers(p) ==
    /\ Len(stack') = Len(stack) + 1
    /\ stack'[Len(stack')].player = p

\* the step in which withdrawReward, called by p, reverts at a require
Refused(p) ==
    /\ last' # last
    /\ last'.op = "withdrawReward"
    /\ last'.caller = p
    /\ stack' = stack

\* the step in which a call appends a Round record
Recorded == nextRoundId' = nextRoundId + 1
NewRound == rounds'[Len(rounds')]

\* a Round record of a verified, perfect infinite round played in time
QualifyingRound(r) ==
    /\ r.roundType = INFINITE
    /\ r.verified
    /\ r.correctSteps = r.steps
    /\ r.failureReason # TIME_EXPIRED

RECURSIVE RewardsRecorded(_, _)
RewardsRecorded(player, n) ==
    IF n = 0 THEN 0
    ELSE (IF rounds[n].player = player THEN rounds[n].reward ELSE 0)
         + RewardsRecorded(player, n - 1)

\* C1: for every round token, whatever the interleaving of the submit
\* requests for it, the ledger's record operation is invoked at most once and
\* the round's score is added to the leaderboard accumulator at most once
C1_SettledAtMostOnce ==
    \A t \in RoundIds : ledgerCalls[t] <= 1 /\ settlements[t] <= 1

\* C2: withdrawReward by a player with no pending rewards fails with
\* NoRewards; with X credited and not yet withdrawn it transfers exactly X to
\* the player and sets the pending rewards to 0; the withdrawReward that
\* follows a completed one fails with NoRewards
C2_Step(p) ==
    /\ pendingRewards[p] = 0 =>
          /\ ~Transfers(p)
          /\ Refused(p) => last'.res = NoRewards
    /\ Transfers(p) =>
          /\ pendingRewards[p] = credited[p] - paid[p]
          /\ pendingRewards[p] > 0
          /\ wallet'[p] = wallet[p] + pendingRewards[p]
          /\ balance' = balance - pendingRewards[p]
          /\ pendingRewards'[p] = 0
    /\ last = Call("withdrawReward", p, Ok) =>
          /\ ~Transfers(p)
          /\ Refused(p) => last'.res = NoRewards

C2_WithdrawDrains == [][\A p \in Callers : C2_Step(p)]_vars

C2_Witness ==
    /\ last = Call("withdrawReward", "p1", NoRewards)
    /\ stack = <<>>
    /\ credited["p1"] = 31500
    /\ paid["p1"] = 31500
    /\ wallet["p1"] = 31500
    /\ pendingRewards["p1"] = 0

\* C3: the pending rewards of a player are zero while a transfer to the
\* player is in progress, and the total transferred to a player never
\* exceeds the total credited to the player, re-entrant calls included
C3_NeverOverpaid ==
    /\ \A i \in 1..Len(stack) : pendingRewards[stack[i].player] = 0
    /\ \A p \in Callers : paid[p] <= credited[p]

\* a player calls withdrawReward again from within the transfer
C3_Witness ==
    /\ Len(stack) = 1
    /\ last = Call("withdrawReward", stack[1].player, NoRewards)
    /\ paid[stack[1].player] = credited[stack[1].player]
    /\ paid[stack[1].player] > 0

\* C4: withdrawReward by a player whose pending rewards exceed the
\* contract's balance fails with InsufficientFunds; pending rewards, balance
\* and the player's funds stay as they were and nothing is paid
C4_Step(p) ==
    pendingRewards[p] > balance =>
        /\ ~Transfers(p)
        /\ Refused(p) =>
              /\ last'.res = InsufficientFunds
              /\ UNCHANGED <<pendingRewards, balance, wallet, paid>>

C4_InsufficientFunds == [][\A p \in Callers : C4_Step(p)]_vars

C4_Witness ==
    /\ last = Call("withdrawReward", "p2", InsufficientFunds)
    /\ pendingRewards["p2"] = 31500
    /\ balance = 20000
    /\ wallet["p2"] = 0
    /\ paid["p2"] = 0

\* C5: for every player and date recordDailyChallenge succeeds at most once;
\* the owner's call with a perfect, verified, in-time run for a player who
\* has not completed the configured date succeeds and credits exactly
\* dailyChallengeRewardPerCompletion; once the player has completed the date
\* every call fails with AlreadyCompleted, whatever its other arguments
CompletionsOf(p, d) ==
    Cardinality({i \in 1..Len(dailyChallenges[d].completers) :
                    dailyChallenges[d].completers[i] = p})

C5_State ==
    \A p \in Players, d \in Dates :
        /\ CompletionsOf(p, d) <= 1
        /\ \A i \in DailyInputs :
             LET res == recordDailyChallengeResult(Owner, p, d, i.score,
                            i.correctSteps, i.totalSteps, i.timeElapsedMs,
                            i.timeLimitMs, i.timeExpired, i.verified)
             IN  /\ CompletionsOf(p, d) = 1 => res = AlreadyCompleted
                 /\ ( /\ CompletionsOf(p, d) = 0
                      /\ dailyChallenges[d].date = d
                      /\ i.verified /\ i.correctSteps = i.totalSteps
                      /\ ~i.timeExpired ) => res = Ok

C5_Step ==
    \A p \in Players, d \in Dates :
        dailyChallenges'[d].completers = Append(dailyChallenges[d].completers, p) =>
            /\ last' = Call("recordDailyChallenge", Owner, Ok)
            /\ pendingRewards'[p] = pendingRewards[p] + dailyChallengeRewardPerCompletion
            /\ NewRound.reward = dailyChallengeRewardPerCompletion
            /\ \A q \in Callers \ {p} : pendingRewards'[q] = pendingRewards[q]

C5_DailyOnce == []C5_State /\ [][C5_Step]_vars

\* a second perfect run for the same player and date was refused
C5_Witness ==
    /\ last = Call("recordDailyChallenge", Owner, AlreadyCompleted)
    /\ dailyChallenges[20251101].completers = <<"p1", "p2">>
    /\ pendingRewards["p1"] = 100000
    /\ pendingRewards["p2"] = 150000

\* C6: recordInfiniteRound credits the computed reward only if the round is
\* verified, perfect and in time; every other successful call records
\* reward 0 and leaves pendingRewards and totalRewards of the player unchanged
C6_Step ==
    (Recorded /\ NewRound.roundType = INFINITE) =>
        LET p == NewRound.player IN
        IF QualifyingRound(NewRound)
        THEN /\ pendingRewards'[p] = pendingRewards[p] + NewRound.reward
             /\ playerStats'[p].totalRewards
                    = playerStats[p].totalRewards + NewRound.reward
        ELSE /\ NewRound.reward = 0
             /\ pendingRewards'[p] = pendingRewards[p]
             /\ playerStats'[p].totalRewards = playerStats[p].totalRewards

C6_RewardOnlyIfQualifying == [][C6_Step]_vars

\* C7: a successful recordInfiniteRound with a verified, perfect, in-time
\* round raises the stored currentLevel by exactly 1 and currentStreak by
\* exactly 1, and does not lower bestScore
C7_Step ==
    (Recorded /\ QualifyingRound(NewRound)) =>
        LET p == NewRound.player IN
        /\ playerStats'[p].currentLevel = playerStats[p].currentLevel + 1
        /\ playerStats'[p].currentStreak = playerStats[p].currentStreak + 1
        /\ playerStats'[p].bestScore >= playerStats[p].bestScore

C7_LevelUpByOne == [][C7_Step]_vars

\* C8: every successful recordInfiniteRound with correctSteps < steps or
\* timeExpired sets currentStreak to 0 and leaves currentLevel unchanged
C8_Step ==
    ( /\ Recorded
      /\ NewRound.roundType = INFINITE
      /\ \/ NewRound.correctSteps < NewRound.steps
         \/ NewRound.failureReason = TIME_EXPIRED ) =>
        LET p == NewRound.player IN
        /\ playerStats'[p].currentStreak = 0
        /\ playerStats'[p].currentLevel = playerStats[p].currentLevel

C8_FailureResetsStreak == [][C8_Step]_vars

\* a streak of one was reset by a partial or late round, at level 2
C8_Witness ==
    /\ Len(rounds) = 2
    /\ rounds[1].player = "p1" /\ QualifyingRound(rounds[1])
    /\ rounds[2].player = "p1"
    /\ \/ rounds[2].correctSteps < rounds[2].steps
       \/ rounds[2].failureReason = TIME_EXPIRED
    /\ playerStats["p1"].currentStreak = 0
    /\ playerStats["p1"].currentLevel = 2

\* C9: the stored currentLevel of every player is at least 1 in every
\* reachable state
C9_LevelAtLeastOne == \A p \in Players : playerStats[p].currentLevel >= 1

\* C10: totalRewards of every player equals the sum of the reward fields of
\* the player's Round records plus the leaderboard payouts credited
C10_TotalRewards ==
    \A p \in Players :
        playerStats[p].totalRewards = RewardsRecorded(p, Len(rounds)) + payouts[p]

SubmitOps == {"submitInfinite", "submitDaily"}

\* the step in which a submit for token t sent by q is answered at once
SubmitAnswered(t, q) ==
    /\ response' # response
    /\ handlers' = handlers
    /\ response'.op \in SubmitOps
    /\ response'.roundId = t
    /\ response'.playerAddress = q

\* the step in which a submit for token t sent by q is suspended at an await
SubmitSuspended(t, q) ==
    \E h \in Slots :
        /\ handlers[h] = Idle
        /\ handlers'[h].pc \in {"infiniteAwaitLedger", "dailyAwaitLedger",
                                "dailyAwaitLevel"}
        /\ handlers'[h].roundId = t
        /\ handlers'[h].playerAddress = q

\* the submit changed neither the server's tables nor the ledger
NothingSettled ==
    UNCHANGED <<activeRounds, leaderboardScores, playerLevels, ledgerVars,
                handlers, ledgerCalls, settlements>>

\* C11: once a submit for a token has completed, every later submit for the
\* token, by anyone and to either handler, fails with RoundNotFound and
\* changes neither the active rounds, the leaderboard accumulator, the level
\* cache nor the ledger
C11_Step ==
    \A t \in RoundIds, q \in Players :
        (settlements[t] >= 1 /\ (SubmitAnswered(t, q) \/ SubmitSuspended(t, q))) =>
            /\ NothingSettled
            /\ response'.status = 404
            /\ response'.error = RoundNotFound

C11_ConsumedTokenNotFound == [][C11_Step]_vars

\* the player who did not own the round submits the settled token
C11_Witness ==
    /\ settlements[1] = 1
    /\ 1 \notin DOMAIN activeRounds
    /\ response.status = 404
    /\ response.roundId = 1
    /\ response.playerAddress \notin DOMAIN leaderboardScores

\* C12: a submit for a token that is not active fails with RoundNotFound and
\* a submit by another player than the round's owner fails with Unauthorized;
\* neither changes the active rounds, the accumulator, the level cache or
\* the ledger
C12_Step ==
    \A t \in RoundIds, q \in Players :
        (SubmitAnswered(t, q) \/ SubmitSuspended(t, q)) =>
            IF t \notin DOMAIN activeRounds
            THEN /\ NothingSettled
                 /\ response'.status = 404
                 /\ response'.error = RoundNotFound
            ELSE IF activeRounds[t].playerAddress # q
            THEN /\ NothingSettled
                 /\ response'.status = 403
                 /\ response'.error = Unauthorized
            ELSE SubmitAnswered(t, q) => response'.status = 200

C12_RejectedSubmitsChangeNothing == [][C12_Step]_vars

\* a foreign submit was refused and the round is still its owner's
C12_Witness ==
    /\ response.status = 403
    /\ response.roundId \in DOMAIN activeRounds
    /\ activeRounds[response.roundId].playerAddress # response.playerAddress
    /\ settlements[response.roundId] = 0

\* C13: every operation other than withdrawReward changes the contract's
\* state or balance only when the owner calls it; called by anyone else it
\* fails with NotAuthorized and changes nothing
C13_Step ==
    (last' # last /\ last'.op # "withdrawReward" /\ last'.caller # Owner) =>
        /\ last'.res = NotAuthorized
        /\ UNCHANGED <<contractVars, wallet>>

C13_OnlyOwnerMutates == [][C13_Step]_vars

\* C14: for a date setDailyChallenge was never called for, no call of
\* recordDailyChallenge succeeds: the date has no completers
C14_UnconfiguredDateRefused ==
    \A d \in Dates \ configured : dailyChallenges[d].completers = <<>>

\* C15: for a configured date and a player who has not completed it,
\* recordDailyChallenge is refused as not verified unless the run is
\* verified, perfect and in time; the refused call marks nobody completed,
\* credits nothing, appends no Round and leaves PlayerStats unchanged
C15_State ==
    \A p \in Players, d \in configured, i \in DailyInputs :
        ( /\ CompletionsOf(p, d) = 0
          /\ ~(i.verified /\ i.correctSteps = i.totalSteps /\ ~i.timeExpired) ) =>
            recordDailyChallengeResult(Owner, p, d, i.score, i.correctSteps,
                i.totalSteps, i.timeElapsedMs, i.timeLimitMs, i.timeExpired,
                i.verified) \in NotVerifiedOrPerfect

C15_Step ==
    ( /\ last' # last
      /\ last'.op = "recordDailyChallenge"
      /\ last'.res \in NotVerifiedOrPerfect ) =>
        UNCHANGED <<dailyChallenges, pendingRewards, rounds, playerRounds,
                    nextRoundId, playerStats, contractVars>>

C15_NoPartialCredit == []C15_State /\ [][C15_Step]_vars

\* a verified but imperfect or late run for a configured date was refused
C15_Witness ==
    /\ last = Call("recordDailyChallenge", Owner, NotPerfect)
    /\ 20251101 \in configured
    /\ dailyChallenges[20251101].completers = <<>>
    /\ rounds = <<>>
    /\ \A p \in Players : pendingRewards[p] = 0 /\ playerStats[p] = ZeroStats

\* C16: recordInfiniteRound fails with InvalidInput when steps is 0 or above
\* 50, correctSteps exceeds steps, or gridSize is below 2 or above 10; the
\* failed call appends no Round, does not advance nextRoundId and leaves the
\* player's stats and pendingRewards unchanged
C16_State ==
    \A p \in Players, i \in MalformedInfiniteInputs :
        recordInfiniteRoundResult(Owner, p, i.score, i.gridSize, i.steps,
            i.correctSteps, i.timeElapsedMs, i.timeLimitMs, i.timeExpired,
            i.verified) \in InvalidInput

C16_Step ==
    ( /\ last' # last
      /\ last'.op = "recordInfiniteRound"
      /\ last'.res \in InvalidInput ) =>
        UNCHANGED <<rounds, playerRounds, nextRoundId, playerStats,
                    pendingRewards, contractVars>>

C16_InvalidInputRejected == []C16_State /\ [][C16_Step]_vars

\* a late round on an 11 by 11 grid was refused after a round was recorded
C16_Witness ==
    /\ last = Call("recordInfiniteRound", Owner, InvalidGridSize)
    /\ Len(rounds) = 1
    /\ nextRoundId = 2
    /\ \A p \in Players : playerStats[p].timeoutsCount = 0

\* the step in which updateLeaderboard succeeds
Paid == payoutRuns' = payoutRuns + 1

\* the weights of the ten ranks, in percent
Weights == <<30, 20, 15, 10, 8, 6, 4, 3, 2, 2>>

\* the sum over the ranks i to 9 held by account a in table t of
\* floor(pool * weight / 100)
RECURSIVE ShareOf(_, _, _, _)
ShareOf(a, t, pool, i) ==
    IF i = 10 THEN 0
    ELSE (IF t[i].player = a THEN (pool * Weights[i + 1]) \div 100 ELSE 0)
         + ShareOf(a, t, pool, i + 1)

\* the sum over all ranks of floor(pool * weight / 100)
RECURSIVE SharesFrom(_, _)
SharesFrom(pool, i) ==
    IF i = 10 THEN 0
    ELSE ((pool * Weights[i + 1]) \div 100) + SharesFrom(pool, i + 1)

\* what a step adds to the pending rewards of the players and the owner
CreditedInStep ==
    (pendingRewards'["p1"] - pendingRewards["p1"])
    + (pendingRewards'["p2"] - pendingRewards["p2"])
    + (pendingRewards'[Owner] - pendingRewards[Owner])
    + (pendingRewards'[AddressZero] - pendingRewards[AddressZero])

\* C17: updateLeaderboard is refused for an arity mismatch unless topPlayers,
\* scores and levels have exactly 10 entries each; the refused call leaves the
\* leaderboard, every pendingRewards and totalRewards, and
\* lastLeaderboardUpdate unchanged
C17_State ==
    \A c \in BoardCalls :
        LET res == updateLeaderboardResult(Owner, c.topPlayers, c.scores, c.levels)
        IN  IF Len(c.topPlayers) = 10 /\ Len(c.scores) = 10 /\ Len(c.levels) = 10
            THEN res = Ok
            ELSE res \in ArityErrors

C17_Step ==
    ( /\ last' # last
      /\ last'.op = "updateLeaderboard"
      /\ last'.res \in ArityErrors ) =>
        UNCHANGED <<leaderboard, pendingRewards, playerStats,
                    lastLeaderboardUpdate, payoutRuns>>

C17_ArityChecked == []C17_State /\ [][C17_Step]_vars

\* eleven entries were refused after a payout, which stands
C17_Witness ==
    /\ last = Call("updateLeaderboard", Owner, ArityPlayers)
    /\ payoutRuns = 1
    /\ leaderboard[0].player = "p1"
    /\ pendingRewards["p1"] > 0

\* C18: a successful updateLeaderboard with ten non-sentinel entries credits
\* in total the sum over the ranks of floor(pool * weight / 100); the total
\* never exceeds the pool and falls short of it by less than 10 units
C18_Step ==
    (Paid /\ \A i \in 0..9 : leaderboard'[i].player # AddressZero) =>
        /\ CreditedInStep = SharesFrom(leaderboardRewardPool, 0)
        /\ CreditedInStep <= leaderboardRewardPool
        /\ leaderboardRewardPool - CreditedInStep < 10

C18_PayoutTotal == [][C18_Step]_vars

\* a pool of 99 units paid 90 to ten ranked players
C18_Witness ==
    /\ payoutRuns = 1
    /\ leaderboardRewardPool = 99
    /\ \A i \in 0..9 : leaderboard[i].player # AddressZero
    /\ payouts["p1"] + payouts["p2"] = 90

\* C19: a successful updateLeaderboard replaces the whole table by its
\* arguments; the player of each non-sentinel entry has pendingRewards and
\* totalRewards increased by the reward of the rank the entry occupies, and
\* the zero address is never credited
C19_Step ==
    \A c \in BoardCalls :
        (Paid /\ updateLeaderboard(Owner, c.topPlayers, c.scores, c.levels)) =>
            /\ \A i \in 0..9 :
                 leaderboard'[i] = [player |-> c.topPlayers[i + 1],
                                    score |-> c.scores[i + 1],
                                    level |-> c.levels[i + 1]]
            /\ \A a \in Callers :
                 pendingRewards'[a] = pendingRewards[a]
                     + ShareOf(a, leaderboard', leaderboardRewardPool, 0)
            /\ \A p \in Players :
                 playerStats'[p].totalRewards = playerStats[p].totalRewards
                     + ShareOf(p, leaderboard', leaderboardRewardPool, 0)
            /\ pendingRewards'[AddressZero] = pendingRewards[AddressZero]

C19_TableReplaced == [][C19_Step]_vars

\* a table of ten ranked players was replaced by one player and sentinels
C19_Witness ==
    /\ payoutRuns = 2
    /\ payouts["p1"] > 0
    /\ leaderboard[0] = [player |-> "p2", score |-> 99, level |-> 0]
    /\ \A i \in 1..9 : leaderboard[i].player = AddressZero
    /\ pendingRewards[AddressZero] = 0

\* C20: recordInfiniteRound called by the owner with a perfect round in time
\* and timeLimitMs = 0 does not fail with a division by zero
C20_ZeroTimeLimitGuarded ==
    ~(last.op = "recordInfiniteRound" /\ last.res = PanicDivZero)

\* the reward of the design for correctSteps steps answered within
\* timeElapsedMs of timeLimitMs: r + floor(r / 2)
PerfectReward(correctSteps, timeElapsedMs, timeLimitMs) ==
    LET base == correctSteps * baseRewardPerStep
        r == base + MulDiv(base * timeBonusMultiplier,
                           Max(0, timeLimitMs - timeElapsedMs), timeLimitMs * 1000)
    IN  r + (r \div 2)

\* C21: for a qualifying perfect round with timeLimitMs > 0 the reward is
\* r + floor(r / 2), r being the base reward plus the time bonus; for five
\* steps, 2500 ms of 10000, base 0.001 and multiplier 100 it is 0.0080625
\* (80625 units of 10^11 wei), and this amount is recorded and credited
C21_Step ==
    (Recorded /\ QualifyingRound(NewRound) /\ NewRound.timeLimitMs > 0) =>
        LET n == NewRound
            amount == PerfectReward(n.correctSteps, n.timeElapsedMs, n.timeLimitMs)
        IN  /\ n.reward = amount
            /\ pendingRewards'[n.player] = pendingRewards[n.player] + amount
            /\ ( /\ n.steps = 5 /\ n.timeElapsedMs = 2500 /\ n.timeLimitMs = 10000
                 /\ baseRewardPerStep = 10000 /\ timeBonusMultiplier = 100 )
                   => amount = 80625

C21_RewardFormula == [][C21_Step]_vars

\* the five-step round was recorded for p1 and credited
C21_Witness ==
    /\ Len(rounds) = 1
    /\ rounds[1].player = "p1" /\ rounds[1].steps = 5 /\ rounds[1].correctSteps = 5
    /\ rounds[1].timeElapsedMs = 2500 /\ rounds[1].timeLimitMs = 10000
    /\ rounds[1].reward = 80625
    /\ pendingRewards["p1"] = 80625

\* the step in which the backend issues a daily round to p
DailyRoundIssued(p) ==
    /\ nextToken' = nextToken + 1
    /\ activeRounds'[nextToken].roundType = DAILY_CHALLENGE
    /\ activeRounds'[nextToken].playerAddress = p

\* C22: the daily rounds started for a player and date never exceed the
\* configured tries, and once the player has completed today's challenge
\* no start of a daily round issues a new active round
C22_Step ==
    \A p \in Players :
        DailyRoundIssued(p) =>
            /\ nextToken <= config.dailyChallenge.maxTriesPerDay
            /\ p \notin dailyChallenges[Today].hasCompleted

C22_DailyStartsLimited == [][C22_Step]_vars

\* the step in which the submit suspended in slot h at its ledger call is
\* answered after the call failed
LedgerCallFailed(h, pc) ==
    /\ handlers[h].pc = pc
    /\ handlers'[h] = Idle
    /\ response'.status = 200
    /\ response'.txHash = "null"

\* C23: when the ledger call of a submit fails, the response still carries
\* score and correctSteps, its txHash is null, the round is not eligible
\* (infinite: canContinue false and no level advance; daily: rewardEarned
\* false), and the round is removed from the table
C23_Step ==
    \A h \in Slots :
        LET f == handlers[h] IN
        /\ LedgerCallFailed(h, "infiniteAwaitLedger") =>
              /\ response'.score = f.score
              /\ response'.correctSteps = f.correctSteps
              /\ f.roundId \notin DOMAIN activeRounds'
              /\ response'.canContinue = FALSE
              /\ f.roundId \in DOMAIN activeRounds =>
                    response'.nextLevel = activeRounds[f.roundId].level
        /\ LedgerCallFailed(h, "dailyAwaitLedger") =>
              /\ response'.score = f.score
              /\ response'.correctSteps = f.correctSteps
              /\ f.roundId \notin DOMAIN activeRounds'
              /\ response'.rewardEarned = FALSE

C23_FailedCallNotEligible == [][C23_Step]_vars

\* C24: in every submit handler the ledger is called at most once for a
\* round token; in particular a token whose ledger call failed never causes
\* another ledger call
C24_Step ==
    \A t \in RoundIds :
        ledgerCalls'[t] > ledgerCalls[t] => ledgerCalls[t] = 0

C24_OneLedgerCallPerToken == [][C24_Step]_vars

\* the step in which the submit for token t is answered 200 as unverified
AnsweredUnverified(t) ==
    /\ settlements'[t] = settlements[t] + 1
    /\ response'.roundId = t
    /\ ~response'.verified

\* C25: when verification fails the ledger is not called for the round and
\* the player does not level up (level cache unchanged, canContinue false),
\* while the response reports score and correctSteps with verified false
C25_State ==
    \A h \in Slots :
        handlers[h].pc \in {"infiniteAwaitLedger", "dailyAwaitLedger"}
            => handlers[h].verified

C25_Step ==
    \A t \in RoundIds :
        AnsweredUnverified(t) =>
            /\ response'.status = 200
            /\ response'.txHash = "null"
            /\ ledgerCalls'[t] = ledgerCalls[t]
            /\ response'.correctSteps \in 0..3
            /\ response'.score >= 0
            /\ response'.op = "submitInfinite" =>
                  /\ response'.canContinue = FALSE
                  /\ playerLevels' = playerLevels
                  /\ t \in DOMAIN activeRounds =>
                        /\ response'.nextLevel = activeRounds[t].level
                        /\ response'.correctSteps <= activeRounds[t].steps

C25_UnverifiedNotSettled == []C25_State /\ [][C25_Step]_vars

\* a perfect round in time was answered as unverified: it was not recorded
\* and did not raise the level
C25_Witness ==
    /\ response.status = 200
    /\ response.op = "submitInfinite"
    /\ ~response.verified
    /\ response.isPerfect
    /\ ~response.timeExpired
    /\ ~response.canContinue
    /\ response.txHash = "null"
    /\ contractWithSigner
    /\ ledgerCalls[response.roundId] = 0
    /\ response.playerAddress \notin DOMAIN playerLevels

\* the step in which a run of processLeaderboardPayout that called the
\* ledger ends
PayoutEnds ==
    /\ payoutLog.outcome = "calling"
    /\ payoutLog'.outcome \in {"updated", "failed"}

\* C26: after processLeaderboardPayout has run with a signer, the
\* accumulation map is empty, whether updateLeaderboard succeeded or failed
C26_Step == PayoutEnds => leaderboardScores' = EmptyMap

C26_MapClearedAfterPayout == [][C26_Step]_vars

\* the ledger call for a ranking led by a player failed and the map is empty
C26_Witness ==
    /\ payoutLog.outcome = "failed"
    /\ payoutLog.addresses[1] \in Players
    /\ payoutLog.scores[1] > 0
    /\ leaderboardScores = EmptyMap

\* C27: the scores of a period whose payout failed at the ledger still count
\* in the ranking submitted at the next trigger
C27_Step ==
    ( /\ payoutLog.outcome = "failed"
      /\ payoutLog'.outcome \in {"calling", "skipped", "empty"} ) =>
        \A i \in 1..10 :
            payoutLog.addresses[i] # AddressZero =>
                /\ payoutLog'.outcome # "empty"
                /\ \E j \in 1..10 :
                      /\ payoutLog'.addresses[j] = payoutLog.addresses[i]
                      /\ payoutLog'.scores[j] >= payoutLog.scores[i]

C27_MissedPayoutAbsorbed == [][C27_Step]_vars

RecordOps == {"recordInfiniteRound", "recordDailyChallenge"}

\* C28: nextRoundId starts at 1 and is advanced by exactly 1 by each
\* successful recordInfiniteRound or recordDailyChallenge and by nothing
\* else; rounds[id].id = id for every id < nextRoundId; a stored Round is
\* never changed
C28_State ==
    /\ nextRoundId >= 1
    /\ Len(rounds) = nextRoundId - 1
    /\ \A id \in 1..Len(rounds) : rounds[id].id = id
    /\ last.op = "constructor" => nextRoundId = 1

C28_Step ==
    /\ nextRoundId' # nextRoundId =>
          /\ nextRoundId' = nextRoundId + 1
          /\ last'.op \in RecordOps
          /\ last'.res = Ok
    /\ (last'.op \in RecordOps /\ last'.res = Ok /\ playerStats' # playerStats) =>
          nextRoundId' = nextRoundId + 1
    /\ \A id \in 1..Len(rounds) : rounds'[id] = rounds[id]

C28_RoundIds == []C28_State /\ [][C28_Step]_vars

\* an infinite round and a daily completion were recorded as rounds 1 and 2
C28_Witness ==
    /\ nextRoundId = 3
    /\ rounds[1].roundType = INFINITE /\ rounds[1].id = 1
    /\ rounds[2].roundType = DAILY_CHALLENGE /\ rounds[2].id = 2

\* the step in which the backend issues an infinite round
InfiniteRoundIssued ==
    /\ nextToken' = nextToken + 1
    /\ activeRounds'[nextToken].roundType = INFINITE

\* C29: for every level <= 1 that reaches calculateInfiniteDifficulty,
\* levels 0 and below of a start request included, the round has the base
\* tier: base gridSize, base steps and baseTimeLimit
C29_Step ==
    (InfiniteRoundIssued /\ activeRounds'[nextToken].level <= 1) =>
        /\ activeRounds'[nextToken].gridSize = config.infiniteMode.baseDifficulty.gridSize
        /\ activeRounds'[nextToken].steps = config.infiniteMode.baseDifficulty.steps
        /\ activeRounds'[nextToken].timeLimit = config.infiniteMode.baseTimeLimit

C29_BaseTierBelowLevelOne == [][C29_Step]_vars

\* every list of at most three clicks
ClicksUpToThree == UNION {[1..n -> Tiles] : n \in 0..3}

\* the length of the longest common prefix of a and b
CommonPrefix(a, b) ==
    CHOOSE k \in 0..Min(Len(a), Len(b)) :
        /\ \A i \in 1..k : a[i] = b[i]
        /\ k < Min(Len(a), Len(b)) => a[k + 1] # b[k + 1]

\* the first steps clicks exist and are the stored sequence
FirstClicksAreSequence(clicks, round) ==
    /\ round.steps \in 0..Len(clicks)
    /\ SubSeq(clicks, 1, round.steps) = round.sequence

\* C30: both submit handlers compute correctSteps as the length of the
\* longest common prefix of the clicks and the stored sequence, so it is at
\* most min(number of clicks, sequence length), and the round is perfect
\* exactly when the first steps clicks equal the stored sequence
C30_State ==
    \A t \in DOMAIN activeRounds : \A clicks \in ClicksUpToThree :
        LET round == activeRounds[t]
            correctSteps == countCorrect(clicks, round.sequence, 1)
        IN  /\ correctSteps = CommonPrefix(clicks, round.sequence)
            /\ correctSteps <= Min(Len(clicks), Len(round.sequence))
            /\ (correctSteps = round.steps) <=> FirstClicksAreSequence(clicks, round)

C30_Step ==
    \A t \in RoundIds :
        ( /\ settlements'[t] = settlements[t] + 1
          /\ t \in DOMAIN activeRounds ) =>
            /\ response'.correctSteps \in 0..Len(activeRounds[t].sequence)
            /\ response'.isPerfect <=> response'.correctSteps = activeRounds[t].steps

C30_PrefixGrading == []C30_State /\ [][C30_Step]_vars

\* a daily round of two steps was answered with one correct step
C30_Witness ==
    /\ response.status = 200
    /\ response.op = "submitDaily"
    /\ response.correctSteps = 1
    /\ ~response.isPerfect

(***************************************************************************)
(* C31 - C40                                                               *)
(***************************************************************************)
\* the job has built its arrays and calls updateLeaderboard with them
PayoutSends ==
    /\ payoutLog' # payoutLog
    /\ payoutLog'.outcome = "calling"

\* entry a of the map ranks at least as high as entry b
NotBelow(a, b) ==
    \/ leaderboardScores[a].level > leaderboardScores[b].level
    \/ /\ leaderboardScores[a].level = leaderboardScores[b].level
       /\ leaderboardScores[a].score >= leaderboardScores[b].score

\* C31: the arrays processLeaderboardPayout passes to the ledger have length
\* 10; they hold the min(10, size of the map) highest-ranked players of the
\* accumulation map, each once, with their accumulated score and level, in
\* order of level descending and then score descending, followed by slots of
\* the zero address with score 0 and level 0
C31_Step ==
    PayoutSends =>
        LET A == payoutLog'
            n == Min(Cardinality(DOMAIN leaderboardScores), 10)
            sent == {A.addresses[i] : i \in 1..n}
        IN  /\ DOMAIN A.addresses = 1..10
            /\ DOMAIN A.scores = 1..10
            /\ DOMAIN A.levels = 1..10
            /\ \A i \in 1..n :
                  /\ A.addresses[i] \in DOMAIN leaderboardScores
                  /\ A.scores[i] = leaderboardScores[A.addresses[i]].score
                  /\ A.levels[i] = leaderboardScores[A.addresses[i]].level
            /\ \A i, j \in 1..n : i # j => A.addresses[i] # A.addresses[j]
            /\ \A i, j \in 1..n :
                  i < j => \/ A.levels[i] > A.levels[j]
                           \/ /\ A.levels[i] = A.levels[j]
                              /\ A.scores[i] >= A.scores[j]
            /\ \A a \in sent : \A b \in DOMAIN leaderboardScores \ sent : NotBelow(a, b)
            /\ \A i \in (n + 1)..10 :
                  /\ A.addresses[i] = AddressZero
                  /\ A.scores[i] = 0
                  /\ A.levels[i] = 0

C31_RankingArrays == [][C31_Step]_vars

\* eleven players of different levels had accumulated scores: ten were sent,
\* one of them ahead of a player of a lower level and a higher score
C31_Witness ==
    /\ payoutLog.outcome = "calling"
    /\ Cardinality(DOMAIN leaderboardScores) = 11
    /\ payoutLog.addresses[10] # AddressZero
    /\ \E i, j \in 1..10 :
          /\ i < j
          /\ payoutLog.levels[i] > payoutLog.levels[j]
          /\ payoutLog.scores[i] < payoutLog.scores[j]

\* the entry of a player in the accumulation map, or what line 174 takes for
\* a player who has none
Accumulation(p) ==
    IF p \in DOMAIN leaderboardScores THEN leaderboardScores[p]
    ELSE [level |-> 1, score |-> 0]

\* C32: between clears, a player's entry in the accumulation map holds the
\* sum of the scores of the player's rounds whose submit completed, each
\* round counted once, and the greatest level passed in those submits, never
\* below 1 and never decreasing; nothing else changes the map
C32_State == \A p \in DOMAIN leaderboardScores : leaderboardScores[p].level >= 1

C32_Step ==
    /\ \A t \in RoundIds :
          settlements'[t] = settlements[t] + 1 =>
            LET p == response'.playerAddress
                added == IF settlements[t] = 0 THEN response'.score ELSE 0
            IN  /\ DOMAIN leaderboardScores' = DOMAIN leaderboardScores \cup {p}
                /\ leaderboardScores'[p].score = Accumulation(p).score + added
                /\ leaderboardScores'[p].level >= Accumulation(p).level
                /\ response'.op = "submitInfinite" =>
                      leaderboardScores'[p].level =
                          Max(Accumulation(p).level, Max(1, response'.nextLevel))
                /\ \A q \in DOMAIN leaderboardScores \ {p} :
                      leaderboardScores'[q] = leaderboardScores[q]
    /\ settlements' = settlements => leaderboardScores' = leaderboardScores

C32_ScoreIsSumOverRounds == []C32_State /\ [][C32_Step]_vars

\* the sum of pendingRewards over a set of accounts
RECURSIVE PendingOf(_)
PendingOf(S) ==
    IF S = {} THEN 0
    ELSE LET a == CHOOSE x \in S : TRUE IN pendingRewards[a] + PendingOf(S \ {a})

\* C33: in every reachable state the contract's balance covers the sum of all
\* pendingRewards, so that a player with pendingRewards > 0 can withdraw
C33_Solvent ==
    /\ balance >= PendingOf(DOMAIN pendingRewards)
    /\ \A p \in DOMAIN pendingRewards :
          pendingRewards[p] > 0 => withdrawRewardResult(p) = Ok

\* the submit answered in this step for token t made a ledger call that threw
AnsweredAfterFailedCall(t) ==
    /\ settlements'[t] = settlements[t] + 1
    /\ response'.roundId = t
    /\ recordsOnChain(response'.verified)
    /\ response'.txHash = "null"

\* C34: a round that failed verification, or whose ledger call failed, adds
\* nothing to the leaderboard accumulation map
C34_Step ==
    \A t \in RoundIds :
        (AnsweredUnverified(t) \/ AnsweredAfterFailedCall(t)) =>
            leaderboardScores' = leaderboardScores

C34_RejectedRoundsNotAccumulated == [][C34_Step]_vars

\* the accumulated score of player p is in the arrays the run has sent
SentInRanking(p) ==
    \E i \in DOMAIN payoutLog.addresses :
        /\ payoutLog.addresses[i] = p
        /\ payoutLog.scores[i] = leaderboardScores[p].score

\* C35: no accumulated score is lost across a payout: when a run that called
\* the ledger finishes, every player's accumulated score is in the ranking
\* the run has sent or is still in the map
C35_Step ==
    PayoutEnds =>
        \A p \in DOMAIN leaderboardScores :
            \/ SentInRanking(p)
            \/ /\ p \in DOMAIN leaderboardScores'
               /\ leaderboardScores'[p].score >= leaderboardScores[p].score

C35_NoScoreLost == [][C35_Step]_vars

\* the level the server holds for player p in the level cache m: the cached
\* level, and 1 for a player it has no level for
KnownLevel(m, p) == IF p \in DOMAIN m THEN m[p] ELSE 1

\* C36: the level an infinite round is played at is the level the server
\* holds for the player, whatever the start request says, and a submit
\* raises the player's level in the level cache, which is where the
\* accumulator's levels come from, by at most 1
C36_Step ==
    /\ \A t \in RoundIds :
          ( /\ t \notin DOMAIN activeRounds
            /\ t \in DOMAIN activeRounds'
            /\ activeRounds'[t].roundType = INFINITE ) =>
              activeRounds'[t].level =
                  KnownLevel(playerLevels', activeRounds'[t].playerAddress)
    /\ \A t \in RoundIds, p \in Players :
          ( /\ SubmitAnswered(t, p) \/ SubmitSuspended(t, p)
            /\ playerLevels' # playerLevels ) =>
              playerLevels'[p] <= KnownLevel(playerLevels, p) + 1

C36_LevelNotClientControlled == [][C36_Step]_vars

\* C37: for every player, PlayerStats.totalRounds is the number of Round
\* records of the player, the length of playerRounds[player], infinite and
\* daily rounds alike
C37_TotalRoundsCountsRecords ==
    \A p \in DOMAIN playerRounds : playerStats[p].totalRounds = Len(playerRounds[p])

\* the completion of date d by player p is recorded in this step
DailyCompletion(d, p) ==
    dailyChallenges'[d].completers = Append(dailyChallenges[d].completers, p)

\* the sum of the reward pools of a set of dates
RECURSIVE PoolOf(_)
PoolOf(D) ==
    IF D = {} THEN 0
    ELSE LET d == CHOOSE x \in D : TRUE IN dailyChallenges[d].rewardPool + PoolOf(D \ {d})

\* the sum of all rewards credited so far to a set of accounts
RECURSIVE CreditedTo(_)
CreditedTo(S) ==
    IF S = {} THEN 0
    ELSE LET a == CHOOSE x \in S : TRUE IN credited[a] + CreditedTo(S \ {a})

\* C38: the daily rewards credited for a date never exceed the date's
\* rewardPool: a completion is credited only when the pool covers it, and,
\* daily completions being the only credits here, all credits together stay
\* within all pools together
C38_Step ==
    \A d \in Dates, p \in Players :
        DailyCompletion(d, p) =>
            pendingRewards'[p] - pendingRewards[p] <= dailyChallenges[d].rewardPool

C38_State == CreditedTo(DOMAIN credited) <= PoolOf(Dates)

C38_DailyPoolCovers == []C38_State /\ [][C38_Step]_vars

\* a submit handler is suspended at one of its awaits
SubmitPcs == {"infiniteAwaitLedger", "dailyAwaitLedger", "dailyAwaitLevel"}

\* the submit for token t has been answered and the token is gone
SubmitCompleted(t) ==
    /\ response.status # 0
    /\ response.op \in SubmitOps
    /\ response.roundId = t
    /\ t \notin DOMAIN activeRounds

\* C39: every submit by the round's owner for an active token completes with
\* a response and with the token removed from activeRounds: one that is
\* answered at once removes it in the same step, and one that is suspended
\* at an awaited call is answered in the end, the token removed
C39_Step ==
    \A t \in RoundIds, p \in Players :
        ( /\ SubmitAnswered(t, p)
          /\ submitStatus(t, p) = 200 ) => t \notin DOMAIN activeRounds'

C39_Live ==
    \A h \in Slots, t \in RoundIds :
        (handlers[h].pc \in SubmitPcs /\ handlers[h].roundId = t)
            ~> (handlers[h] = Idle /\ SubmitCompleted(t))

C39_SubmitsComplete == [][C39_Step]_vars /\ C39_Live

\* C40: a qualifying perfect round is recordable at every stored level of
\* the uint8 range: recordInfiniteRound by the owner with valid arguments,
\* timeLimitMs > 0, verified, correctSteps = steps and not timeExpired ends
\* without a revert, whatever the player's stored currentLevel in 0..255
C40_State ==
    \A p \in Players : \A i \in ValidInfiniteInputs :
        ( /\ playerStats[p].currentLevel \in 0..Uint8Max
          /\ Qualifies(i.verified, i.correctSteps, i.steps, i.timeExpired) ) =>
            recordInfiniteRoundResult(Owner, p, i.score, i.gridSize, i.steps,
                i.correctSteps, i.timeElapsedMs, i.timeLimitMs, i.timeExpired,
                i.verified) = Ok

C40_Step ==
    ( /\ last' # last
      /\ last'.op = "recordInfiniteRound" ) => last'.res # PanicOverflow

C40_RecordableAtEveryLevel == []C40_State /\ [][C40_Step]_vars

====
